---- MODULE Spec2Model ----
(***************************************************************************)
(* Model of the WebRCON control plane of starz-otis-ai-bot:                *)
(*   - WebRconClient / RconManager        (src/rcon_web.py)                *)
(*   - the console watcher                (src/bot.py, rcon_console_watch) *)
(*   - the teleport-zone checker          (src/tp_zones.py) and the        *)
(*     position-read handler              (src/starz_printpos/tp_tracker.py)*)
(* Spec   : command clients, registry, watcher.                            *)
(* SpecTp : position reads, zone membership, teleport cooldowns.           *)
(* Time is counted in whole seconds.                                       *)
(***************************************************************************)
EXTENDS Integers, Sequences, FiniteSets, TLC

\* ------------------------------------------------------------------ bounds
\* highest request id a client hands out before the model stops calling
MaxId == 2
\* the per-command timeout of send_command (timeout=5.0), in model ticks
CommandTimeout == 1
\* how far past the timeout the model lets a waiting call's clock run
MaxOverrun == 1

\* the wall clock (time.time()) when the model starts, and how far it runs
StartTime == 1000
MaxAdvance == 6
\* consecutive reads inside one zone that the streak history tells apart
MaxStreak == 3
\* frames a server puts on one console connection before the model stops it
MaxFrames == 3
\* how many times the clock of the watchers is advanced
MaxWatchSteps == 3
\* look-aheads in time of the position scheduler
MaxSchedSteps == 4

\* ------------------------------------------------------- static structure
\* RCON_CONFIGS keys, lower-cased by RconManager.__init__ (two of s1..s10)
RCON_CONFIGS == <<"s1", "s2">>

\* the tasks that issue commands (ban paths, scheduler, slash commands ...);
\* the first of them also runs the fan-outs
Tasks == {"t1", "t2"}
FanOutTasks == {"t1"}
\* the task that sends commands while the watchers are observed
IngestTasks == {"t1"}

\* server keys a caller may pass to RconManager.send
InputKeys == {"s1", "S2", "sx"}

\* str.lower() on the keys above
Lower(k) == CASE k = "S2" -> "s2"
              [] OTHER -> k

RangeOf(seq) == {seq[i] : i \in 1..Len(seq)}

\* RconManager.clients: one WebRconClient per configured key
Clients == {Lower(k) : k \in RangeOf(RCON_CONFIGS)}

\* data.get("Identifier") when the frame has no such field
NoId == -1

\* frames a server can put on a socket: unparseable text, or a JSON object
\* with an Identifier (absent, 0, or a request id) and a Message
BadFrame == [kind |-> "bad", id |-> NoId, msg |-> ""]
JsonFrames == [kind : {"json"}, id : {NoId} \cup (0..MaxId), msg : {"", "line"}]
Frames == {BadFrame} \cup JsonFrames

\* frames on a command socket: send_command never looks at the Message
CmdFrames == {f \in Frames : f.kind = "bad" \/ f.msg = "line"}

\* --------------------------------------------------- watcher statics
\* rcon_console_watch: `await asyncio.sleep(10)` after a connection error
WATCH_BACKOFF == 10
\* rcon_console_watch: `await asyncio.sleep(30)` while the switch is off
WATCH_DISABLED_SLEEP == 30
RCON_DISCONNECT_DELAY == 600

\* the servers whose watcher runs next to the command task, and the server
\* whose line handling is followed consumer by consumer
IngestServers == {"s1"}
DispatchServers == {"s1"}

\* the console line the watchers read while their connections are followed
WatchFrames == {[kind |-> "json", id |-> 0, msg |-> "line"]}

\* how far the clock moves between two watcher steps
WatchSteps == {WATCH_BACKOFF, RCON_DISCONNECT_DELAY}

\* the consumers handle_rcon_console_line calls for one line, in call order
Consumers == <<"printpos", "promotion", "activity", "enforcement">>
\* console lines: "plain" names no registered admin, "admin" is a high-risk
\* spawn line of a registered admin
LineKinds == {"plain", "admin"}

\* ------------------------------------------------- teleport-zone statics
\* tp_config.py
TP_ZONE_COOLDOWN == 3
FAR_DISTANCE_METERS == 200
FAR_SKIP_SECONDS == 60
PRINTPOS_BATCH_SIZE == 4
PRINTPOS_TICK_INTERVAL == 2

\* the server the position scheduler polls and the players connected to it
SchedServer == "s1"
SchedPlayers == <<"p1", "p2", "p3", "p4">>

\* (server_key, player_name) pairs whose positions are read
PollKeys == {<<SchedServer, SchedPlayers[i]>> : i \in DOMAIN SchedPlayers}

\* the player whose reads are followed zone by zone
TpKeys == {<<"s1", "p1">>}

\* the zones an operator has configured: two LAUNCHSITE slots whose trigger
\* spheres (trigger_radius 1.5, held doubled as a whole number) overlap
ZoneA == [tp_type |-> "LAUNCHSITE", slot |-> 1, zone_x |-> 0, zone_y |-> 0, zone_z |-> 0,
          trigger_radius_x2 |-> 3, dest |-> <<40, 0, 0>>,
          spawn_points |-> <<<<40, 0, 0>>, <<0, 0, 40>>>>]
ZoneB == [tp_type |-> "LAUNCHSITE", slot |-> 2, zone_x |-> 2, zone_y |-> 0, zone_z |-> 0,
          trigger_radius_x2 |-> 3, dest |-> <<0, 40, 0>>,
          spawn_points |-> <<<<0, 40, 0>>>>]
ZoneKey(z) == <<z.tp_type, z.slot>>
ZoneKeys == {ZoneKey(ZoneA), ZoneKey(ZoneB)}
ZoneTable(zs) == [k \in {ZoneKey(z) : z \in zs} |-> CHOOSE z \in zs : ZoneKey(z) = k]
AllZones == ZoneTable({ZoneA, ZoneB})
ZoneConfigs == {ZoneTable({}), ZoneTable({ZoneA}), AllZones}

\* a zone with five spawn points, and a set_tp_zone call that passes no list
FivePoints == <<<<40, 0, 0>>, <<0, 0, 40>>, <<0, 40, 0>>, <<40, 0, 40>>, <<40, 40, 0>>>>
ZoneFive == [ZoneA EXCEPT !.spawn_points = FivePoints]
ZoneNoList == [ZoneB EXCEPT !.spawn_points = <<>>]

\* what an admin passes to set_tp_zone, and the spawn lists given to /tp-set-zone
SetInputs == {ZoneFive, ZoneNoList}
TpSetSpawns == {<<<<40, 0, 0>>>>, <<<<40, 0, 0>>, <<0, 0, 40>>>>}
TpTypes == {"LAUNCHSITE"}
Slots == {1, 2}

\* how a rewrite of the zone file can end: written, open() raised, or the
\* write stopped after open() had truncated the file
SaveOutcomes == {"ok", "open_fails", "dump_fails"}

\* how the 1 + n saves of one /tp-set-zone can end: a failure that has set in
\* stays for the rest of the command (every file state any other run of
\* outcomes leaves is left by one of these)
SaveRuns(n) ==
    {[i \in 0..n |-> IF i < j THEN "ok" ELSE o] :
        j \in 0..(n + 1), o \in SaveOutcomes \ {"ok"}}

\* position reads while zones are administered: inside slot 1, outside all
ZoneReplies == [coords : {TRUE}, pos : {<<0, 0, 0>>, <<10, 0, 0>>}]

\* coordinates a printpos reply can carry: inside A only, inside A and B,
\* near but outside every trigger sphere, far from every zone center
Positions == {<<0, 0, 0>>, <<1, 0, 0>>, <<10, 0, 0>>, <<500, 0, 0>>}

\* replies to server.printpos: text PRINTPOS_COORD_RE finds coordinates in,
\* or text it finds none in
Replies == [coords : {TRUE}, pos : Positions] \cup [coords : {FALSE}, pos : {<<0, 0, 0>>}]

\* what _send_rcon hands the poll loop: nothing (None or ""), text without
\* coordinates, or coordinates near to or far from the zones but inside none
SchedPositions == {<<10, 0, 0>>, <<500, 0, 0>>}
SchedReplies ==
    [empty : {TRUE}, coords : {FALSE}, pos : {<<0, 0, 0>>}]
        \cup [empty : {FALSE}, coords : {FALSE}, pos : {<<0, 0, 0>>}]
        \cup [empty : {FALSE}, coords : {TRUE}, pos : SchedPositions]

\* two moderation commands that can be in flight at once (perform_ban, /unban)
HpCalls == {"ban1", "ban2"}

\* the time between two looks at the scheduler: a tick, or a far-skip period
SchedSteps == {PRINTPOS_TICK_INTERVAL, FAR_SKIP_SECONDS}

\* player lists the refresh loop reads: nobody, or two of the players
PoolNames == {<<>>, <<"p1", "p2">>}

EMPTY_SERVER_COOLDOWN_SECONDS == 300

\* look-aheads in time the pool is followed for
MaxPoolSteps == 3

NoStreak == [len |-> 0, tps |-> 0, late |-> 0, cooled |-> FALSE, first |-> FALSE]

NoTask == "none"
NoResults == [c \in Clients |-> "none"]

\* what the program did last, as seen from outside: a value returned or an
\* exception raised to a caller, a frame read and where it was routed
Event(kind, who, frame, ident, arg, at, fan, res, log) ==
    [kind |-> kind, who |-> who, frame |-> frame, ident |-> ident, arg |-> arg,
     at |-> at, fan |-> fan, res |-> res, log |-> log]
NoEvent == Event("none", "none", BadFrame, 0, "none", "none", "none", NoResults, NoResults)

VARIABLES
    RCON_ENABLED,   \* master switch read by the watcher (config_starz.RCON_ENABLED)
    RCON_WEB_ENABLED,   \* master switch read by run_rcon_command (rcon_web.RCON_ENABLED)
    ws,             \* client -> "none" | "open" | "closed"   (self.ws / self.ws.closed)
    lock,           \* client -> task holding self._lock, or NoTask
    next_id,        \* client -> self._next_id
    pc,             \* task -> position inside send_command
    op,             \* task -> "send" | "broadcast" | "send_all"
    cl,             \* task -> key of the client the task is working on
    identifier,     \* task -> local `identifier` of send_command
    todo,           \* task -> keys a fan-out still has to visit
    results,        \* task -> the `results` dict of a fan-out
    sendLog,        \* task -> client -> how send_command ended for a fan-out
    writes,         \* task -> frames written by the current send_command call
    sinceWrite,     \* task -> ticks since the request frame was written
    sinceRecv,      \* task -> ticks since the current ws.recv() was started
    recovery,       \* client -> "clean" | "failed" (a send_command failed and no
                    \*   socket was opened since) | "reopened" (one was)
    issued,         \* client -> request ids handed out so far
    watch,          \* server -> "disconnected" | "streaming"
    lastEvent,      \* the last Event
    now,            \* time.time()
    ZONES,          \* tp_zones._ZONES: (tp_type, slot) -> TpZone
    printpos_enabled,   \* tp_tracker._enabled
    last_tp_times,      \* tp_zones._last_tp_times (0 where the dict has no entry)
    last_player_zones,  \* tp_zones._last_player_zones ({} where no entry)
    cooldown_until,     \* tp_tracker._cooldown_until, as a set of <<key, until>>
    near_set,           \* tp_tracker._near_set
    sentCmds,           \* the teleport commands the last position read sent
    hist,           \* per player and zone: the run of reads inside the zone
    poll_queues,    \* tp_tracker._poll_queues: server -> READY lane
    expired_queues, \* tp_tracker._expired_queues: server -> EXPIRED lane
    scan_queues,    \* tp_tracker._scan_queues: server -> SCAN lane
    picked,         \* the players of the running tick still to be queried
    tickAt,         \* now_ts of the last tick of _position_poll_loop (0: none yet)
    farAt,          \* player -> time of the player's last read if it was far (else -1)
    healthIdx,      \* check_rcon_health_on_startup: clients it is done with
    healthPc,       \* check_rcon_health_on_startup: "idle" | "connecting" (inside
                    \*   websockets.connect of the next client)
    leaked,         \* client -> sockets that are open but no longer held in self.ws
    empty_server_until, \* server -> end of its empty-server window (0: none)
    disk,           \* the zone file: [state, doc], state "missing" | "partial" | "doc"
    lastOp,         \* the last zone-admin operation that returned since start-up
    bumped,         \* the _stats counters the last position query incremented
                    \*   (of "no_coords" and "err")
    hpPc,           \* _run_rcon_high_priority call -> "idle" | "running" (awaiting coro)
    hpWasOn,        \* _run_rcon_high_priority call -> its local was_on
    operator_off,   \* the last /tp-printpos-toggle of an operator disabled
    setupCmds,      \* _send_zone_setup_cmds: zone_setup_cmds, by kind
    setupIdx,       \* _send_zone_setup_cmds: place of `cmd` in the list (0: no call)
    setupPhase,     \* "idle" | "send" | "verify" | "failed" (RuntimeError) | "done"
    setupPending,   \* servers the running gather has not sent to yet
    setupLog,       \* the sends of the call so far: <<place, what, server>>
    setupMsg,       \* server -> `msg` of the last verification
    alert_cooldown, \* bot.RCON_DISCONNECT_COOLDOWN (0 where the dict has no entry)
    wakeAt,         \* server -> when the watcher's asyncio.sleep ends
    lostAt,         \* server -> when the watcher lost its stream, until it has
                    \*   a new one (-1: never, or streaming again)
    alertLog,       \* server -> times of the last two disconnect alerts sent
    pausedBy,       \* the server whose alert last paused the scheduler
    arrived,        \* server -> frames put on the current console connection
    inbox,          \* server -> numbers of the frames not read yet, in arrival order
    hline,          \* server -> number of the frame being handled (0: none)
    hkind,          \* server -> kind of the line being handled
    stage,          \* server -> the consumer the watcher is awaiting
    invoked,        \* server -> consumers called for the line
    raisedBy,       \* server -> consumers that raised for the line
    lastFail,       \* server -> number of the last frame whose handling raised
    started         \* server -> numbers of the frames handled, in start order

rconVars == <<RCON_ENABLED, RCON_WEB_ENABLED, ws, lock, next_id, pc, op, cl, identifier, todo,
              results, sendLog, writes, sinceWrite, sinceRecv, recovery,
              issued, watch, lastEvent>>
schedVars == <<poll_queues, expired_queues, scan_queues, picked, tickAt, farAt>>
healthVars == <<healthIdx, healthPc, leaked>>
\* what neither the command side, the watchers nor the position reads change
zoneFileVars == <<disk, lastOp>>
\* the pause wrapper's calls and the operator's last word
pauseVars == <<hpPc, hpWasOn, operator_off>>
\* one call of _send_zone_setup_cmds
setupVars == <<setupCmds, setupIdx, setupPhase, setupPending, setupLog, setupMsg>>
sideVars == <<healthVars, empty_server_until, zoneFileVars, bumped, pauseVars, setupVars>>
\* the teleport side proper
tpOwnVars == <<now, ZONES, printpos_enabled, last_tp_times, last_player_zones,
               cooldown_until, near_set, sentCmds, hist, schedVars>>
tpVars == <<tpOwnVars, sideVars>>
\* what the command/ingest side leaves alone, and what the teleport side does
watchVars == <<alert_cooldown, wakeAt, lostAt, alertLog, pausedBy>>
dispatchVars == <<arrived, inbox, hline, hkind, stage, invoked, raisedBy, lastFail,
                  started>>
\* the teleport side without the scheduler's switch
tpDataVars == <<now, ZONES, last_tp_times, last_player_zones, cooldown_until,
                near_set, sentCmds, hist, schedVars, sideVars>>
nonRconVars == <<tpVars, watchVars, dispatchVars>>
nonTpVars == <<rconVars, watchVars, dispatchVars, sideVars>>

vars == <<rconVars, tpVars, watchVars, dispatchVars>>

switchVars == <<RCON_ENABLED, RCON_WEB_ENABLED>>
clientVars == <<ws, lock, next_id, recovery, issued>>
callVars == <<pc, op, cl, identifier, todo, results, sendLog, writes,
              sinceWrite, sinceRecv>>

InitRcon ==
    /\ ws = [c \in Clients |-> "none"]
    /\ lock = [c \in Clients |-> NoTask]
    /\ next_id = [c \in Clients |-> 1]
    /\ pc = [t \in Tasks |-> "idle"]
    /\ op = [t \in Tasks |-> "send"]
    /\ cl = [t \in Tasks |-> "s1"]
    /\ identifier = [t \in Tasks |-> 0]
    /\ todo = [t \in Tasks |-> <<>>]
    /\ results = [t \in Tasks |-> NoResults]
    /\ sendLog = [t \in Tasks |-> NoResults]
    /\ writes = [t \in Tasks |-> 0]
    /\ sinceWrite = [t \in Tasks |-> 0]
    /\ sinceRecv = [t \in Tasks |-> 0]
    /\ recovery = [c \in Clients |-> "clean"]
    /\ issued = [c \in Clients |-> {}]
    /\ watch = [c \in Clients |-> "disconnected"]
    /\ lastEvent = NoEvent

\* ---------------------------------------------------- tp_zones.py: store

\* `spawn_points or [...]` with the fallback left out
spawn_points_kept(sp, dest) == sp

\* `spawn_points or [(dest_x, dest_y, dest_z)]` (set_tp_zone, _load_zones_from_disk,
\* _save_zones_to_disk)
spawn_points_or_dest(sp, dest) == IF sp = <<>> THEN <<dest>> ELSE sp

\* the TpZone set_tp_zone builds from its arguments
new_zone(inp) == [inp EXCEPT !.spawn_points = spawn_points_or_dest(@, inp.dest)]

\* set_tp_zone: `_ZONES[tp_type.value][int(slot)] = z`
set_tp_zone(table, inp) ==
    [k \in DOMAIN table \cup {ZoneKey(inp)} |->
        IF k = ZoneKey(inp) THEN new_zone(inp) ELSE table[k]]

\* clear_tp_type: `_ZONES[key] = {}`
clear_tp_type(table, ty) == [k \in {kk \in DOMAIN table : kk[1] # ty} |-> table[k]]

\* delete_tp_zone: `del _ZONES[key][slot_i]`
delete_tp_zone(table, zk) == [k \in DOMAIN table \ {zk} |-> table[k]]

\* _save_zones_to_disk: the entry written for one zone, under its type and slot
raw_of(z) ==
    [zone_x |-> z.zone_x, zone_y |-> z.zone_y, zone_z |-> z.zone_z,
     trigger_radius_x2 |-> z.trigger_radius_x2, dest |-> z.dest,
     spawn_points |-> spawn_points_or_dest(z.spawn_points, z.dest)]

\* _save_zones_to_disk: the document `raw`
zones_document(table) == [k \in DOMAIN table |-> raw_of(table[k])]

NoDoc == [k \in {} |-> k]
MissingDisk == [state |-> "missing", doc |-> NoDoc]
PartialDisk == [state |-> "partial", doc |-> NoDoc]
SavedDisk(table) == [state |-> "doc", doc |-> zones_document(table)]

\* _save_zones_to_disk: open(path, "w") truncates, json.dump writes, and an
\* exception from either is only printed
save_zones_to_disk(table, old, outcome) ==
    CASE outcome = "ok" -> SavedDisk(table)
      [] outcome = "open_fails" -> old
      [] outcome = "dump_fails" -> PartialDisk

\* _load_zones_from_disk: the TpZone built from one entry of the document
load_zone(k, raw) ==
    [tp_type |-> k[1], slot |-> k[2],
     zone_x |-> raw.zone_x, zone_y |-> raw.zone_y, zone_z |-> raw.zone_z,
     trigger_radius_x2 |-> raw.trigger_radius_x2, dest |-> raw.dest,
     spawn_points |-> spawn_points_or_dest(raw.spawn_points, raw.dest)]

\* _load_zones_from_disk: no file or no JSON gives the empty table
load_zones_from_disk(d) ==
    IF d.state # "doc" THEN NoDoc
    ELSE [k \in DOMAIN d.doc |-> load_zone(k, d.doc[k])]

\* a document written by hand or by an older version: slot 2 has no spawn_points
HandDoc ==
    [state |-> "doc",
     doc |-> [k \in {ZoneKey(ZoneA), ZoneKey(ZoneB)} |->
                IF k = ZoneKey(ZoneA) THEN raw_of(ZoneA)
                ELSE [raw_of(ZoneB) EXCEPT !.spawn_points = <<>>]]]

\* the zone files the bot can find at start-up
ZoneDisks == {MissingDisk, PartialDisk, HandDoc, SavedDisk(ZoneTable({ZoneFive}))}

NoOp == [kind |-> "none", ty |-> "", zones |-> {}, replaced |-> FALSE]

\* the teleport side at start-up with zone table z in memory
InitTpState(z) ==
    /\ now = StartTime
    /\ ZONES = z
    /\ printpos_enabled = TRUE
    /\ last_tp_times = [k \in PollKeys, zk \in ZoneKeys |-> 0]
    /\ last_player_zones = [k \in PollKeys |-> {}]
    /\ cooldown_until = {}
    /\ near_set = [s \in Clients |-> {}]
    /\ sentCmds = {}
    /\ hist = [k \in PollKeys, zk \in ZoneKeys |-> NoStreak]

\* the teleport side at start-up with zone table z loaded from disk
InitTp(z) ==
    /\ InitTpState(z)
    /\ disk = SavedDisk(z)
    /\ lastOp = NoOp

\* the scheduler's lanes once the connected players were announced: players
\* not yet classified wait in the SCAN lane
InitLanes(players) ==
    /\ poll_queues = [c \in Clients |-> <<>>]
    /\ expired_queues = [c \in Clients |-> <<>>]
    /\ scan_queues = [c \in Clients |-> IF c = SchedServer THEN players ELSE <<>>]
    /\ picked = <<>>
    /\ tickAt = 0
    /\ farAt = [k \in PollKeys |-> -1]

\* the start-up health check has not run, no socket was ever opened
InitSide ==
    /\ healthIdx = 0
    /\ healthPc = "idle"
    /\ leaked = [c \in Clients |-> 0]
    /\ empty_server_until = [c \in Clients |-> 0]
    /\ bumped = {}
    /\ hpPc = [t \in HpCalls |-> "idle"]
    /\ hpWasOn = [t \in HpCalls |-> FALSE]
    /\ operator_off = FALSE
    /\ setupCmds = <<>>
    /\ setupIdx = 0
    /\ setupPhase = "idle"
    /\ setupPending = {}
    /\ setupLog = <<>>
    /\ setupMsg = [c \in Clients |-> ""]

\* the watchers before on_ready starts them
InitWatch ==
    /\ alert_cooldown = [c \in Clients |-> 0]
    /\ wakeAt = [c \in Clients |-> 0]
    /\ lostAt = [c \in Clients |-> -1]
    /\ alertLog = [c \in Clients |-> <<>>]
    /\ pausedBy = "none"
    /\ arrived = [c \in Clients |-> 0]
    /\ inbox = [c \in Clients |-> <<>>]
    /\ hline = [c \in Clients |-> 0]
    /\ hkind = [c \in Clients |-> "plain"]
    /\ stage = [c \in Clients |-> "none"]
    /\ invoked = [c \in Clients |-> {}]
    /\ raisedBy = [c \in Clients |-> {}]
    /\ lastFail = [c \in Clients |-> 0]
    /\ started = [c \in Clients |-> <<>>]

\* the command side: the watcher's switch plays no part (config_starz.py: True)
Init ==
    /\ InitRcon /\ RCON_ENABLED = TRUE /\ RCON_WEB_ENABLED = FALSE
    /\ InitTp(AllZones) /\ InitLanes(<<>>) /\ InitWatch /\ InitSide

\* the ingest side: the master switch is whatever the operator configured
InitIngest ==
    /\ InitRcon /\ RCON_ENABLED \in BOOLEAN /\ RCON_WEB_ENABLED = FALSE
    /\ InitTp(AllZones) /\ InitLanes(<<>>) /\ InitWatch /\ InitSide

\* the adapter side: rcon_web's own switch is whatever the operator configured
InitAdapter ==
    /\ InitRcon /\ RCON_ENABLED = TRUE /\ RCON_WEB_ENABLED \in BOOLEAN
    /\ InitTp(AllZones) /\ InitLanes(<<>>) /\ InitWatch /\ InitSide

\* ------------------------------------------------- WebRconClient helpers

\* connect() that tests only `if self.ws`
connect_ignores_closed(w) == w # "none"

\* connect(): the early return `if self.ws and not self.ws.closed`
connect_returns_early(w) == w = "open"

\* close() that keeps the handle
close_keeps_handle(w) == w

\* close(): `self.ws = None` after closing an open socket
close(w) == "none"

\* send_command: `self._next_id += 1`
bump_next_id(n) == n + 1

\* _recv_until_id that takes the first frame that is not console output
recv_matches_any_reply(f, ident) == f.id \notin {0, NoId}

\* _recv_until_id: `if data.get("Identifier") == identifier: return data`
recv_matches(f, ident) == f.id = ident

\* send_command without the lock
lock_never_held(c) == TRUE

\* send_command: `async with self._lock` can be entered
lock_is_free(c) == lock[c] = NoTask

\* RconManager.get without `.lower()`
get_exact(server_key) ==
    IF server_key \notin Clients THEN "KeyError" ELSE server_key

\* RconManager.get: the client key for server_key, or "KeyError"
get(server_key) ==
    LET key == Lower(server_key)
    IN  IF key \notin Clients THEN "KeyError" ELSE key

\* RconManager.broadcast that stores the error under the key
broadcast_entry_with_error(old, ok) == IF ok THEN "resp" ELSE "error"

\* RconManager.broadcast: what the loop body leaves in results[key]
broadcast_entry(old, ok) == IF ok THEN "resp" ELSE old

\* send_rcon_all: what the loop body leaves in results[server_name]
send_rcon_all_entry(old, ok) == IF ok THEN "resp" ELSE "error"

\* rcon_console_watch that tests `ident != 0`
watch_route_none_as_reply(f) ==
    IF f.kind = "bad" THEN "skipped"
    ELSE IF f.msg = "" THEN "skipped"
    ELSE IF f.id # 0 THEN "printpos"
    ELSE "console"

\* rcon_console_watch: where one frame read from the stream goes
watch_route(f) ==
    IF f.kind = "bad" THEN "skipped"               \* json.loads failed
    ELSE IF f.msg = "" THEN "skipped"              \* empty after strip()
    ELSE IF f.id \notin {0, NoId} THEN "printpos"  \* ident not in (0, None)
    ELSE "console"                                 \* handle_rcon_console_line

\* what run_rcon_command hands back when nothing was received
NoneResp == [kind |-> "none", id |-> NoId, msg |-> ""]

\* run_rcon_command: the value returned after client.send_command ended
\* (ok: with frame f; otherwise by an exception): every path returns None
run_rcon_command(ok, f) == NoneResp

\* tp_send_rcon: the text handed to the caller for what run_rcon_command returned
tp_send_rcon(resp) == IF resp.kind = "json" THEN resp.msg ELSE ""

\* ---------------------------------------- return of send_command to caller
\* send_command on client cl[t] has returned frame f (ok) or raised (~ok) at
\* position `at`.  The caller is RconManager.send, the loop of
\* RconManager.broadcast or the loop of send_rcon_all; when the caller
\* returns too, the locals of the call are gone.
Return(t, ok, f, at) ==
    LET c == cl[t]
        rest == Tail(todo[t])
        entry == IF op[t] = "broadcast"
                 THEN broadcast_entry(results[t][c], ok)
                 ELSE send_rcon_all_entry(results[t][c], ok)
        res == [results[t] EXCEPT ![c] = entry]
        log == [sendLog[t] EXCEPT ![c] = IF ok THEN "ok" ELSE "fail"]
        kind == IF ok THEN "returned" ELSE "raised"
    IN  /\ identifier' = [identifier EXCEPT ![t] = 0]
        /\ writes' = [writes EXCEPT ![t] = 0]
        /\ sinceWrite' = [sinceWrite EXCEPT ![t] = 0]
        /\ sinceRecv' = [sinceRecv EXCEPT ![t] = 0]
        /\ IF op[t] = "send"
           THEN /\ pc' = [pc EXCEPT ![t] = "idle"]
                /\ cl' = [cl EXCEPT ![t] = "s1"]
                /\ lastEvent' = Event(kind, t, f, identifier[t], c, at, "none",
                                      NoResults, NoResults)
                /\ UNCHANGED <<op, todo, results, sendLog>>
           ELSE IF op[t] = "run"
           THEN \* run_rcon_command swallows the outcome, tp_send_rcon converts it
                /\ pc' = [pc EXCEPT ![t] = "idle"]
                /\ cl' = [cl EXCEPT ![t] = "s1"]
                /\ op' = [op EXCEPT ![t] = "send"]
                /\ lastEvent' = Event("tp_returned", t, f, identifier[t], c, at, "run",
                        [NoResults EXCEPT ![c] = tp_send_rcon(run_rcon_command(ok, f))],
                        [NoResults EXCEPT ![c] = IF ok THEN "ok" ELSE "fail"])
                /\ UNCHANGED <<todo, results, sendLog>>
           ELSE IF rest = <<>>
           THEN \* the fan-out returns its results dict
                /\ pc' = [pc EXCEPT ![t] = "idle"]
                /\ cl' = [cl EXCEPT ![t] = "s1"]
                /\ op' = [op EXCEPT ![t] = "send"]
                /\ todo' = [todo EXCEPT ![t] = <<>>]
                /\ results' = [results EXCEPT ![t] = NoResults]
                /\ sendLog' = [sendLog EXCEPT ![t] = NoResults]
                /\ lastEvent' = Event(kind, t, f, identifier[t], c, at, op[t], res, log)
           ELSE /\ pc' = [pc EXCEPT ![t] = "acquire"]
                /\ cl' = [cl EXCEPT ![t] = get(Head(rest))]
                /\ todo' = [todo EXCEPT ![t] = rest]
                /\ results' = [results EXCEPT ![t] = res]
                /\ sendLog' = [sendLog EXCEPT ![t] = log]
                /\ lastEvent' = Event(kind, t, f, identifier[t], c, at, "none",
                                      NoResults, NoResults)
                /\ UNCHANGED op

\* run_rcon_command(command, client_key) called by tp_send_rcon(server_key, command)
RunRconCommand(t, k) ==
    /\ pc[t] = "idle"
    /\ IF ~RCON_WEB_ENABLED \/ get(k) = "KeyError"
       THEN /\ lastEvent' = Event("tp_returned", t, BadFrame, 0, k,
                                  IF ~RCON_WEB_ENABLED THEN "disabled" ELSE "get", "run",
                                  NoResults, NoResults)
            /\ UNCHANGED <<pc, cl, op>>
       ELSE /\ pc' = [pc EXCEPT ![t] = "acquire"]
            /\ cl' = [cl EXCEPT ![t] = get(k)]
            /\ op' = [op EXCEPT ![t] = "run"]
            /\ UNCHANGED lastEvent
    /\ UNCHANGED <<identifier, todo, results, sendLog, writes, sinceWrite, sinceRecv>>
    /\ UNCHANGED <<clientVars, switchVars, nonRconVars, watch>>

\* send_command leaves `async with self._lock` by an exception raised at
\* position `at`; the except clause of the wait runs `await self.close()`.
Raise(t, at) ==
    LET c == cl[t]
    IN  /\ ws' = [ws EXCEPT ![c] = IF at = "wait" THEN close(@) ELSE @]
        /\ lock' = [lock EXCEPT ![c] = NoTask]
        /\ recovery' = [recovery EXCEPT ![c] = "failed"]
        /\ Return(t, FALSE, BadFrame, at)

\* ------------------------------------------------------------- RconManager

\* RconManager.send(server_key, command)
ManagerSend(t, k) ==
    /\ pc[t] = "idle"
    /\ IF get(k) = "KeyError"
       THEN /\ lastEvent' = Event("KeyError", t, BadFrame, 0, k, "get", "none",
                                  NoResults, NoResults)
            /\ UNCHANGED <<pc, cl>>
       ELSE /\ lastEvent' = Event("send", t, BadFrame, 0, k, "get", "none",
                                  NoResults, NoResults)
            /\ pc' = [pc EXCEPT ![t] = "acquire"]
            /\ cl' = [cl EXCEPT ![t] = get(k)]
    /\ UNCHANGED <<op, identifier, todo, results, sendLog, writes, sinceWrite, sinceRecv>>
    /\ UNCHANGED <<clientVars, switchVars, nonRconVars, watch>>

\* RconManager.broadcast(command) / send_rcon_all(rcon_manager, command):
\* both walk the configured keys in order, one send_command at a time
FanOut(t, which) ==
    /\ pc[t] = "idle"
    /\ op' = [op EXCEPT ![t] = which]
    /\ todo' = [todo EXCEPT ![t] = RCON_CONFIGS]
    /\ pc' = [pc EXCEPT ![t] = "acquire"]
    /\ cl' = [cl EXCEPT ![t] = get(Head(RCON_CONFIGS))]
    /\ UNCHANGED <<identifier, results, sendLog, writes, sinceWrite, sinceRecv>>
    /\ UNCHANGED <<clientVars, switchVars, nonRconVars, watch, lastEvent>>

Broadcast(t) == FanOut(t, "broadcast")

SendRconAll(t) == FanOut(t, "send_all")

\* ----------------------------------------------- WebRconClient.send_command

\* `async with self._lock:` entered
Acquire(t) ==
    /\ pc[t] = "acquire"
    /\ lock_is_free(cl[t])
    /\ next_id[cl[t]] <= MaxId
    /\ lock' = [lock EXCEPT ![cl[t]] = t]
    /\ pc' = [pc EXCEPT ![t] = "connect"]
    /\ UNCHANGED <<ws, next_id, recovery, issued>>
    /\ UNCHANGED <<op, cl, identifier, todo, results, sendLog, writes,
                   sinceWrite, sinceRecv>>
    /\ UNCHANGED <<switchVars, nonRconVars, watch, lastEvent>>

\* connect(): socket already open, nothing to do
ConnectReuse(t) ==
    /\ pc[t] = "connect"
    /\ connect_returns_early(ws[cl[t]])
    /\ pc' = [pc EXCEPT ![t] = "write"]
    /\ UNCHANGED <<clientVars, switchVars, nonRconVars, watch, lastEvent>>
    /\ UNCHANGED <<op, cl, identifier, todo, results, sendLog, writes,
                   sinceWrite, sinceRecv>>

\* connect(): websockets.connect succeeded, self.ws is a new socket
ConnectOpen(t) ==
    /\ pc[t] = "connect"
    /\ ~connect_returns_early(ws[cl[t]])
    /\ ws' = [ws EXCEPT ![cl[t]] = "open"]
    /\ recovery' = [recovery EXCEPT ![cl[t]] = IF @ = "clean" THEN "clean" ELSE "reopened"]
    /\ pc' = [pc EXCEPT ![t] = "write"]
    /\ UNCHANGED <<lock, next_id, issued>>
    /\ UNCHANGED <<op, cl, identifier, todo, results, sendLog, writes,
                   sinceWrite, sinceRecv>>
    /\ UNCHANGED <<switchVars, nonRconVars, watch, lastEvent>>

\* connect(): websockets.connect raised; the exception leaves send_command
ConnectFail(t) ==
    /\ pc[t] = "connect"
    /\ ~connect_returns_early(ws[cl[t]])
    /\ Raise(t, "connect")
    /\ UNCHANGED <<next_id, issued>>
    /\ UNCHANGED <<switchVars, nonRconVars, watch>>

\* identifier = self._next_id; self._next_id += 1; await self.ws.send(...)
Write(t) ==
    LET c == cl[t]
    IN  /\ pc[t] = "write"
        /\ next_id' = [next_id EXCEPT ![c] = bump_next_id(@)]
        /\ issued' = [issued EXCEPT ![c] = @ \cup {next_id[c]}]
        /\ IF ws[c] = "open"
           THEN /\ identifier' = [identifier EXCEPT ![t] = next_id[c]]
                /\ writes' = [writes EXCEPT ![t] = @ + 1]
                /\ pc' = [pc EXCEPT ![t] = "wait"]
                /\ sinceWrite' = [sinceWrite EXCEPT ![t] = 0]
                /\ sinceRecv' = [sinceRecv EXCEPT ![t] = 0]
                /\ UNCHANGED <<ws, lock, recovery>>
                /\ UNCHANGED <<op, cl, todo, results, sendLog, lastEvent>>
           ELSE \* ws.send raised (connection lost): outside the try, no close()
                Raise(t, "write")
        /\ UNCHANGED <<switchVars, nonRconVars, watch>>

\* _recv_until_id: one `await asyncio.wait_for(self.ws.recv(), timeout)` that
\* delivered frame f
RecvFrame(t, f) ==
    LET c == cl[t]
    IN  /\ pc[t] = "wait"
        /\ ws[c] = "open"
        /\ IF f.kind = "bad"
           THEN \* json.loads raised: except clause closes and re-raises
                /\ Raise(t, "wait")
                /\ UNCHANGED <<next_id, issued>>
           ELSE IF recv_matches(f, identifier[t])
           THEN /\ lock' = [lock EXCEPT ![c] = NoTask]
                /\ Return(t, TRUE, f, "wait")
                /\ UNCHANGED <<ws, next_id, recovery, issued>>
           ELSE \* not ours: ignored, the loop starts the next recv
                /\ lastEvent' = Event("discarded", t, f, identifier[t], c, "wait",
                                      "none", NoResults, NoResults)
                /\ sinceRecv' = [sinceRecv EXCEPT ![t] = 0]
                /\ UNCHANGED <<clientVars, pc, op, cl, identifier, todo,
                               results, sendLog, writes, sinceWrite>>
        /\ UNCHANGED <<switchVars, nonRconVars, watch>>

\* _recv_until_id: ws.recv() raised because the connection is gone
RecvClosed(t) ==
    /\ pc[t] = "wait"
    /\ ws[cl[t]] = "closed"
    /\ Raise(t, "wait")
    /\ UNCHANGED <<next_id, issued>>
    /\ UNCHANGED <<switchVars, nonRconVars, watch>>

\* _recv_until_id: asyncio.wait_for ran out while one recv() was pending
Timeout(t) ==
    /\ pc[t] = "wait"
    /\ ws[cl[t]] = "open"
    /\ sinceRecv[t] >= CommandTimeout
    /\ Raise(t, "wait")
    /\ UNCHANGED <<next_id, issued>>
    /\ UNCHANGED <<switchVars, nonRconVars, watch>>

\* ------------------------------------------- check_rcon_health_on_startup

\* the client the health check's for loop is at
HealthClient == Lower(RCON_CONFIGS[healthIdx + 1])

\* `await client.connect()` up to its await: returns at once on an open
\* socket, otherwise starts websockets.connect
HealthConnectStart ==
    /\ RCON_WEB_ENABLED
    /\ healthPc = "idle"
    /\ healthIdx < Len(RCON_CONFIGS)
    /\ IF connect_returns_early(ws[HealthClient])
       THEN healthIdx' = healthIdx + 1 /\ UNCHANGED healthPc
       ELSE healthPc' = "connecting" /\ UNCHANGED healthIdx
    /\ UNCHANGED <<leaked, empty_server_until, zoneFileVars, bumped, pauseVars, setupVars, rconVars, tpOwnVars,
                   watchVars, dispatchVars>>

\* websockets.connect returned: `self.ws = ...` replaces whatever the client
\* holds by now; a socket that was opened meanwhile stays open, unreferenced
HealthConnectOpen ==
    /\ healthPc = "connecting"
    /\ LET c == HealthClient
       IN  /\ ws' = [ws EXCEPT ![c] = "open"]
           /\ leaked' = [leaked EXCEPT ![c] = IF ws[c] = "open" THEN @ + 1 ELSE @]
           /\ recovery' = [recovery EXCEPT ![c] = IF @ = "clean" THEN "clean" ELSE "reopened"]
    /\ healthPc' = "idle"
    /\ healthIdx' = healthIdx + 1
    /\ UNCHANGED <<lock, next_id, issued, callVars, switchVars, watch, lastEvent,
                   empty_server_until, zoneFileVars, bumped, pauseVars, setupVars, tpOwnVars, watchVars,
                   dispatchVars>>

\* websockets.connect raised: the failure is noted, the loop goes on
HealthConnectFail ==
    /\ healthPc = "connecting"
    /\ healthPc' = "idle"
    /\ healthIdx' = healthIdx + 1
    /\ UNCHANGED <<leaked, empty_server_until, zoneFileVars, bumped, pauseVars, setupVars, rconVars, tpOwnVars,
                   watchVars, dispatchVars>>

\* ------------------------------------------------------------ environment

\* the server or the network drops a command socket: ws.closed becomes True
Drop(c) ==
    /\ ws[c] = "open"
    /\ ws' = [ws EXCEPT ![c] = "closed"]
    /\ UNCHANGED <<lock, next_id, recovery, issued>>
    /\ UNCHANGED <<callVars, switchVars, nonRconVars, watch, lastEvent>>

\* one tick of time passes for every call that waits for its response
Tick ==
    /\ \E t \in Tasks : pc[t] = "wait"
    /\ \A t \in Tasks : pc[t] = "wait" =>
            /\ sinceRecv[t] < CommandTimeout
            /\ sinceWrite[t] < CommandTimeout + MaxOverrun
    /\ sinceWrite' = [t \in Tasks |-> IF pc[t] = "wait" THEN sinceWrite[t] + 1 ELSE sinceWrite[t]]
    /\ sinceRecv' = [t \in Tasks |-> IF pc[t] = "wait" THEN sinceRecv[t] + 1 ELSE sinceRecv[t]]
    /\ UNCHANGED <<clientVars, switchVars, nonRconVars, watch, lastEvent>>
    /\ UNCHANGED <<pc, op, cl, identifier, todo, results, sendLog, writes>>

\* ------------------------------------------------------ rcon_console_watch

WatchEvent(kind, s, f, at) ==
    Event(kind, s, f, 0, s, at, "none", NoResults, NoResults)

\* send_rcon_disconnect_alert without the cooldown test
alert_never_suppressed(last, now_ts) == FALSE

\* send_rcon_disconnect_alert: `if now - last_time < RCON_DISCONNECT_DELAY: return`
alert_suppressed(last, now_ts) == now_ts - last < RCON_DISCONNECT_DELAY

\* rcon_console_watch without the call after connecting
enabled_kept_on_streaming(flag) == flag

\* rcon_console_watch: `set_printpos_enabled(True)` after connecting
enabled_on_streaming(flag) == TRUE

\* rcon_console_watch without the inner `except Exception`
handler_error_escapes(st) == FALSE

\* rcon_console_watch: the inner `except Exception` around the handlers
handler_error_caught(st) == TRUE

\* a loop that takes the newest frame first
newest_frame(q) == q[Len(q)]

\* `async for raw in ws`: the frame the next iteration gets
next_frame(q) == Head(q)

LastTwo(q) == IF Len(q) > 2 THEN SubSeq(q, Len(q) - 1, Len(q)) ELSE q

\* handle_rcon_console_line: the consumers that apply to a line of this kind
applicable(kind) ==
    CASE kind = "reply" -> {"printpos_reply"}
      [] kind = "plain" -> {"printpos", "promotion"}
      [] OTHER -> RangeOf(Consumers)

\* handle_rcon_console_line: the first consumer, `if is_printpos_enabled()`
first_stage(enabled) == IF enabled THEN "printpos" ELSE "promotion"

\* handle_rcon_console_line: where control goes when the awaited consumer
\* returns ("ok") or raises: the next consumer, "done", or "raised" when the
\* exception leaves handle_rcon_console_line
next_stage(st, outcome, kind, rcon_on) ==
    CASE st = "printpos_reply" -> "done"
      [] st = "printpos" -> "promotion"
      [] outcome = "raise" -> "raised"
      [] st = "promotion" -> IF kind = "admin" THEN "activity" ELSE "done"
      [] st = "activity" -> IF rcon_on THEN "enforcement" ELSE "done"
      [] OTHER -> "done"

\* the watcher of s loses what the connection held
DropStream(s) ==
    /\ inbox' = [inbox EXCEPT ![s] = <<>>]
    /\ stage' = [stage EXCEPT ![s] = "none"]
    /\ lostAt' = [lostAt EXCEPT ![s] = now]

\* the outer `except Exception`: send_rcon_disconnect_alert, then sleep(10);
\* ch tells whether bot.get_channel found the alert channel
OuterExcept(s, ch) ==
    /\ IF alert_suppressed(alert_cooldown[s], now)
       THEN /\ lastEvent' = WatchEvent("alert_skipped", s, BadFrame, "outer")
            /\ UNCHANGED <<alert_cooldown, printpos_enabled, pausedBy, alertLog>>
       ELSE /\ alert_cooldown' = [alert_cooldown EXCEPT ![s] = now]
            /\ printpos_enabled' = FALSE
            /\ pausedBy' = s
            /\ IF ch
               THEN /\ alertLog' = [alertLog EXCEPT ![s] = LastTwo(Append(@, now))]
                    /\ lastEvent' = WatchEvent("alert", s, BadFrame, "outer")
               ELSE /\ UNCHANGED alertLog
                    /\ lastEvent' = WatchEvent("alert_no_channel", s, BadFrame, "outer")
    /\ watch' = [watch EXCEPT ![s] = "backoff"]
    /\ wakeAt' = [wakeAt EXCEPT ![s] = now + WATCH_BACKOFF]
    /\ DropStream(s)

\* `if not RCON_ENABLED: await asyncio.sleep(30); continue`
WatchIdle(s) ==
    /\ ~RCON_ENABLED
    /\ watch[s] = "disconnected"
    /\ watch' = [watch EXCEPT ![s] = "idle"]
    /\ wakeAt' = [wakeAt EXCEPT ![s] = now + WATCH_DISABLED_SLEEP]
    /\ UNCHANGED <<clientVars, callVars, switchVars, lastEvent, tpVars,
                   alert_cooldown, lostAt, alertLog, pausedBy, dispatchVars>>

\* `async with websockets.connect(url, ...) as ws:` entered
WatchConnect(s) ==
    /\ RCON_ENABLED
    /\ watch[s] = "disconnected"
    /\ watch' = [watch EXCEPT ![s] = "streaming"]
    /\ printpos_enabled' = enabled_on_streaming(printpos_enabled)
    /\ lostAt' = [lostAt EXCEPT ![s] = -1]
    /\ arrived' = [arrived EXCEPT ![s] = 0]
    /\ inbox' = [inbox EXCEPT ![s] = <<>>]
    /\ hline' = [hline EXCEPT ![s] = 0]
    /\ hkind' = [hkind EXCEPT ![s] = "plain"]
    /\ stage' = [stage EXCEPT ![s] = "none"]
    /\ invoked' = [invoked EXCEPT ![s] = {}]
    /\ raisedBy' = [raisedBy EXCEPT ![s] = {}]
    /\ lastFail' = [lastFail EXCEPT ![s] = 0]
    /\ started' = [started EXCEPT ![s] = <<>>]
    /\ UNCHANGED <<clientVars, callVars, switchVars, lastEvent, tpDataVars,
                   alert_cooldown, wakeAt, alertLog, pausedBy>>

\* websockets.connect raises: outer except
WatchConnectFail(s, ch) ==
    /\ RCON_ENABLED
    /\ watch[s] = "disconnected"
    /\ OuterExcept(s, ch)
    /\ UNCHANGED <<clientVars, callVars, switchVars, tpDataVars,
                   arrived, hline, hkind, invoked, raisedBy, lastFail, started>>

\* the stream ends with a socket error: outer except
WatchError(s, ch) ==
    /\ watch[s] = "streaming"
    /\ OuterExcept(s, ch)
    /\ UNCHANGED <<clientVars, callVars, switchVars, tpDataVars,
                   arrived, hline, hkind, invoked, raisedBy, lastFail, started>>

\* the server closes the stream normally: `async for` ends, `async with`
\* exits, the `while True` loop starts over
WatchClosed(s) ==
    /\ watch[s] = "streaming"
    /\ watch' = [watch EXCEPT ![s] = "disconnected"]
    /\ DropStream(s)
    /\ UNCHANGED <<clientVars, callVars, switchVars, lastEvent, tpVars,
                   alert_cooldown, wakeAt, alertLog, pausedBy,
                   arrived, hline, hkind, invoked, raisedBy, lastFail, started>>

\* the watcher's asyncio.sleep is over
WatchWake(s) ==
    /\ watch[s] \in {"backoff", "idle"}
    /\ now >= wakeAt[s]
    /\ watch' = [watch EXCEPT ![s] = "disconnected"]
    /\ wakeAt' = [wakeAt EXCEPT ![s] = 0]
    /\ UNCHANGED <<clientVars, callVars, switchVars, lastEvent, tpVars,
                   alert_cooldown, lostAt, alertLog, pausedBy, dispatchVars>>

WatchStepsUsed(t) ==
    ((t - StartTime) % RCON_DISCONNECT_DELAY) \div WATCH_BACKOFF
        + (t - StartTime) \div RCON_DISCONNECT_DELAY

\* time passes for the watchers
WatchAdvance(d) ==
    /\ WatchStepsUsed(now) < MaxWatchSteps
    /\ now' = now + d
    /\ UNCHANGED <<rconVars, ZONES, printpos_enabled, last_tp_times,
                   last_player_zones, cooldown_until, near_set, sentCmds, hist,
                   schedVars, sideVars, watchVars, dispatchVars>>

\* `async for raw in ws:` body for one frame whose handlers run to the end
\* without suspending
WatchRecv(s, f) ==
    /\ watch[s] = "streaming"
    /\ lastEvent' = WatchEvent("watch", s, f, watch_route(f))
    /\ UNCHANGED <<clientVars, callVars, switchVars, nonRconVars, watch>>

\* the server puts one more frame on the console connection of s
FrameArrives(s) ==
    /\ watch[s] \in {"streaming", "handling"}
    /\ arrived[s] < MaxFrames
    /\ arrived' = [arrived EXCEPT ![s] = @ + 1]
    /\ inbox' = [inbox EXCEPT ![s] = Append(@, arrived[s] + 1)]
    /\ UNCHANGED <<rconVars, tpVars, watchVars, hline, hkind, stage, invoked,
                   raisedBy, lastFail, started>>

\* `async for raw in ws:` takes a frame and, for a line, calls its handler up
\* to the first consumer
WatchRead(s, f, kind) ==
    /\ watch[s] = "streaming"
    /\ inbox[s] # <<>>
    /\ LET n == next_frame(inbox[s])
           route == watch_route(f)
           handled == route = "console" \/ (route = "printpos" /\ printpos_enabled)
           st == IF route = "console" THEN first_stage(printpos_enabled)
                 ELSE "printpos_reply"
       IN  /\ inbox' = [inbox EXCEPT ![s] = SelectSeq(@, LAMBDA m : m # n)]
           /\ lastEvent' = WatchEvent("watch", s, f, route)
           /\ IF handled
              THEN /\ watch' = [watch EXCEPT ![s] = "handling"]
                   /\ hline' = [hline EXCEPT ![s] = n]
                   /\ hkind' = [hkind EXCEPT ![s] =
                                    IF route = "console" THEN kind ELSE "reply"]
                   /\ stage' = [stage EXCEPT ![s] = st]
                   /\ invoked' = [invoked EXCEPT ![s] = {st}]
                   /\ raisedBy' = [raisedBy EXCEPT ![s] = {}]
                   /\ started' = [started EXCEPT ![s] = Append(@, n)]
              ELSE UNCHANGED <<watch, hline, hkind, stage, invoked, raisedBy, started>>
    /\ UNCHANGED <<clientVars, callVars, switchVars, tpVars, watchVars,
                   arrived, lastFail>>

\* the handling of the line goes on after the awaited consumer ended with
\* outcome "ok" or "raise"
AfterConsumer(s, outcome, ch) ==
    LET nxt == next_stage(stage[s], outcome, hkind[s], RCON_ENABLED)
        rb == IF outcome = "raise" THEN raisedBy[s] \cup {stage[s]} ELSE raisedBy[s]
    IN  /\ raisedBy' = [raisedBy EXCEPT ![s] = rb]
        /\ IF nxt = "raised" /\ ~handler_error_caught(stage[s])
           THEN /\ lastFail' = [lastFail EXCEPT ![s] = hline[s]]
                /\ OuterExcept(s, ch)
                /\ UNCHANGED invoked
           ELSE /\ lastFail' = [lastFail EXCEPT ![s] =
                                    IF nxt = "raised" THEN hline[s] ELSE @]
                /\ IF nxt \in {"raised", "done"}
                   THEN /\ watch' = [watch EXCEPT ![s] = "streaming"]
                        /\ stage' = [stage EXCEPT ![s] = "none"]
                        /\ UNCHANGED invoked
                   ELSE /\ stage' = [stage EXCEPT ![s] = nxt]
                        /\ invoked' = [invoked EXCEPT ![s] = @ \cup {nxt}]
                        /\ UNCHANGED watch
                /\ UNCHANGED <<lastEvent, printpos_enabled, watchVars, inbox>>

\* the consumer the watcher awaits returns
ConsumerReturns(s) ==
    /\ watch[s] = "handling"
    /\ AfterConsumer(s, "ok", FALSE)
    /\ UNCHANGED <<clientVars, callVars, switchVars, tpDataVars,
                   arrived, hline, hkind, started>>

\* the consumer the watcher awaits raises an exception
ConsumerRaises(s, ch) ==
    /\ watch[s] = "handling"
    /\ AfterConsumer(s, "raise", ch)
    /\ UNCHANGED <<clientVars, callVars, switchVars, tpDataVars,
                   arrived, hline, hkind, started>>

\* ------------------------------------------------------------- tp_zones.py

\* squared distance from (x, y, z) to a zone's center
Dist2(pos, zone) ==
    LET dx == pos[1] - zone.zone_x
        dy == pos[2] - zone.zone_y
        dz == pos[3] - zone.zone_z
    IN  (dx * dx) + (dy * dy) + (dz * dz)

\* check_zones_for_player: `in_zone = dist2 <= (r * r)`, r = trigger_radius
in_zone(pos, zone) ==
    4 * Dist2(pos, zone) <= zone.trigger_radius_x2 * zone.trigger_radius_x2

\* check_zones_for_player: current_zones for a position
current_zones(pos) == {zk \in DOMAIN ZONES : in_zone(pos, ZONES[zk])}

\* check_zones_for_player without the enter test
always_entered(zk, prev_zones) == TRUE

\* check_zones_for_player: `if (zone.tp_type, zone.slot) not in prev_zones`
newly_entered(zk, prev_zones) == zk \notin prev_zones

\* _allowed_to_teleport that always finds the cooldown running
never_allowed(last, now_ts) == FALSE

\* _allowed_to_teleport: FALSE while `now_ts - last < TP_ZONE_COOLDOWN`
allowed_to_teleport(last, now_ts) == ~(now_ts - last < TP_ZONE_COOLDOWN)

\* check_zones_for_player: the zones it appends a teleport command for
teleport_zones(k, pos, now_ts) ==
    {zk \in current_zones(pos) :
        /\ newly_entered(zk, last_player_zones[k])
        /\ allowed_to_teleport(last_tp_times[k, zk], now_ts)}

\* random.choice that always takes the first element
first_choice(points) == {points[1]}

\* random.choice(points): what it can return
random_choice(points) == RangeOf(points)

\* build_teleport_command: the coordinates the command can carry
teleport_targets(zone) ==
    IF zone.spawn_points # <<>> THEN random_choice(zone.spawn_points) ELSE {zone.dest}

\* ------------------------------------------------------------ tp_tracker.py

\* _min_dist2_to_any_zone: the least squared distance, or "None" without zones
min_dist2_to_any_zone(pos) ==
    IF DOMAIN ZONES = {} THEN -1
    ELSE CHOOSE d \in {Dist2(pos, ZONES[zk]) : zk \in DOMAIN ZONES} :
            \A zk \in DOMAIN ZONES : d <= Dist2(pos, ZONES[zk])

\* process_printpos_response: `d2 is not None and d2 > FAR_DISTANCE_METERS ** 2`
is_far(pos) ==
    /\ DOMAIN ZONES # {}
    /\ min_dist2_to_any_zone(pos) > FAR_DISTANCE_METERS * FAR_DISTANCE_METERS

\* the run of consecutive reads inside zone zk after a read at pos that sent
\* teleport commands for the zones in tps
NextStreak(k, zk, pos, tps) ==
    LET h == hist[k, zk]
        inside == zk \in DOMAIN ZONES /\ in_zone(pos, ZONES[zk])
        sent == IF zk \in tps THEN 1 ELSE 0
    IN  IF ~inside THEN NoStreak
        ELSE IF h.len = 0
        THEN [len |-> 1, tps |-> sent, late |-> 0,
              cooled |-> ~(now - last_tp_times[k, zk] < TP_ZONE_COOLDOWN),
              first |-> last_tp_times[k, zk] = 0]
        ELSE [h EXCEPT !.len = IF @ < MaxStreak THEN @ + 1 ELSE @,
                       !.tps = @ + sent, !.late = @ + sent]

\* process_printpos_response(server_key, player_name, resp_text) once it is
\* past `if not _enabled or _send_rcon is None: return`
process_printpos_response(k, r) ==
    /\ IF ~r.coords
       THEN \* PRINTPOS_COORD_RE found nothing: `st["no_coords"] += 1`
            /\ bumped' = {"no_coords"}
            /\ UNCHANGED <<last_tp_times, last_player_zones, cooldown_until, near_set,
                           sentCmds, hist>>
       ELSE IF is_far(r.pos)
       THEN \* far from every zone center: cooldown, not near, no zone check
            /\ cooldown_until' = {e \in cooldown_until : e[1] # k}
                                    \cup {<<k, now + FAR_SKIP_SECONDS>>}
            /\ near_set' = [near_set EXCEPT ![k[1]] = @ \ {k[2]}]
            /\ sentCmds' = {}
            /\ bumped' = {}
            /\ hist' = [kk \in PollKeys, zk \in ZoneKeys |->
                            IF kk = k THEN NextStreak(k, zk, r.pos, {}) ELSE hist[kk, zk]]
            /\ UNCHANGED <<last_tp_times, last_player_zones>>
       ELSE \* near: check_zones_for_player, then one send per command
            LET tps == teleport_zones(k, r.pos, now)
            IN  /\ near_set' = [near_set EXCEPT ![k[1]] = @ \cup {k[2]}]
                /\ bumped' = {}
                /\ last_tp_times' = [kk \in PollKeys, zk \in ZoneKeys |->
                        IF kk = k /\ zk \in tps THEN now ELSE last_tp_times[kk, zk]]
                /\ last_player_zones' = [last_player_zones EXCEPT ![k] = current_zones(r.pos)]
                /\ \E dest \in [tps -> UNION {teleport_targets(ZONES[zk]) : zk \in DOMAIN ZONES}] :
                        /\ \A zk \in tps : dest[zk] \in teleport_targets(ZONES[zk])
                        /\ sentCmds' = {[player |-> k, zone |-> zk, dest |-> dest[zk]] : zk \in tps}
                /\ hist' = [kk \in PollKeys, zk \in ZoneKeys |->
                            IF kk = k THEN NextStreak(k, zk, r.pos, tps) ELSE hist[kk, zk]]
                /\ UNCHANGED cooldown_until

\* one position read handed to process_printpos_response
ProcessPrintposResponse(k, r) ==
    /\ printpos_enabled
    /\ process_printpos_response(k, r)
    /\ UNCHANGED <<now, ZONES, printpos_enabled, schedVars, rconVars, watchVars, dispatchVars, healthVars,
                   empty_server_until, zoneFileVars, pauseVars, setupVars>>

\* time passes between two position reads
Advance(d) ==
    /\ now + d <= StartTime + MaxAdvance
    /\ now' = now + d
    /\ UNCHANGED <<ZONES, printpos_enabled, last_tp_times, last_player_zones,
                   cooldown_until, near_set, sentCmds, hist, schedVars, nonTpVars>>

\* ------------------------------------------------ the position scheduler

Min(a, b) == IF a < b THEN a ELSE b

\* _ready_set, _expired_set, _scan_set: the names in the lane of the same server
ready_set(s) == RangeOf(poll_queues[s])
expired_set(s) == RangeOf(expired_queues[s])
scan_set(s) == RangeOf(scan_queues[s])

\* _wake_expired_for_server without the time test
wake_always(until, now_ts) == TRUE

\* _wake_expired_for_server: `if now_ts >= float(until)`
wake_due(until, now_ts) == now_ts >= until

\* _wake_expired_for_server: the players of s it appends to the EXPIRED lane
woken(s, now_ts) ==
    {e[1][2] : e \in {e \in cooldown_until :
        /\ e[1][1] = s
        /\ wake_due(e[2], now_ts)
        /\ e[1][2] \notin expired_set(s)
        /\ e[1][2] \notin ready_set(s)}}

\* the order in which _wake_expired_for_server appends them: the order of
\* insertion into _cooldown_until, any order here
Orders(S) == {q \in [1..Cardinality(S) -> S] : \A x \in S : \E i \in DOMAIN q : q[i] = x}

\* _pick_players: `if expired_q and len(picked) < PRINTPOS_BATCH_SIZE`
take_expired(expired_q) ==
    IF expired_q # <<>> /\ 0 < PRINTPOS_BATCH_SIZE THEN 1 ELSE 0

\* _pick_players: `for _ in range(2)`, leaving at a full batch or an empty lane
take_ready(n, ready_q) == Min(2, Min(Len(ready_q), PRINTPOS_BATCH_SIZE - n))

\* _pick_players without its SCAN step
take_scan_never(n, scan_q) == 0

\* _pick_players: `if len(picked) < PRINTPOS_BATCH_SIZE and scan_q`
take_scan(n, scan_q) ==
    IF n < PRINTPOS_BATCH_SIZE /\ scan_q # <<>> THEN 1 ELSE 0

\* _pick_players filling from READY until the lane is empty
fill_ready_all(n, ready_q) == Len(ready_q)

\* _pick_players: `while len(picked) < PRINTPOS_BATCH_SIZE and ready_q`
fill_ready(n, ready_q) ==
    IF n < PRINTPOS_BATCH_SIZE THEN Min(Len(ready_q), PRINTPOS_BATCH_SIZE - n) ELSE 0

\* _pick_players(server_key) on the three lanes: the batch and what stays
pick_players(expired_q, ready_q, scan_q) ==
    LET a == take_expired(expired_q)
        b == take_ready(a, ready_q)
        ready_rest == SubSeq(ready_q, b + 1, Len(ready_q))
        c == take_scan(a + b, scan_q)
        d == fill_ready(a + b + c, ready_rest)
    IN  [picked  |-> SubSeq(expired_q, 1, a) \o SubSeq(ready_q, 1, b)
                        \o SubSeq(scan_q, 1, c) \o SubSeq(ready_rest, 1, d),
         expired |-> SubSeq(expired_q, a + 1, Len(expired_q)),
         ready   |-> SubSeq(ready_rest, d + 1, Len(ready_rest)),
         scan    |-> SubSeq(scan_q, c + 1, Len(scan_q))]

\* _position_poll_loop: `if _empty_server_until.get(server_key, 0.0) > now_ts`
server_skipped(until, now_ts) == until > now_ts

\* _position_poll_loop up to its first await: now_ts, wake, pick
TickStart ==
    /\ picked = <<>>
    /\ tickAt = 0 \/ now >= tickAt + PRINTPOS_TICK_INTERVAL
    /\ tickAt' = now
    /\ IF ~printpos_enabled \/ server_skipped(empty_server_until[SchedServer], now)
       THEN UNCHANGED <<poll_queues, expired_queues, scan_queues, picked, cooldown_until>>
       ELSE LET s == SchedServer
                due == {e \in cooldown_until : e[1][1] = s /\ wake_due(e[2], now)}
            IN  \E order \in Orders(woken(s, now)) :
                    LET res == pick_players(expired_queues[s] \o order,
                                            poll_queues[s], scan_queues[s])
                    IN  /\ cooldown_until' = cooldown_until \ due
                        /\ picked' = res.picked
                        /\ expired_queues' = [expired_queues EXCEPT ![s] = res.expired]
                        /\ poll_queues' = [poll_queues EXCEPT ![s] = res.ready]
                        /\ scan_queues' = [scan_queues EXCEPT ![s] = res.scan]
    /\ UNCHANGED <<now, ZONES, printpos_enabled, last_tp_times, last_player_zones,
                   near_set, sentCmds, hist, farAt, nonTpVars>>

\* _position_poll_loop: the body of `for pname in picked` for one player,
\* _send_rcon handing back r
PollOne(r) ==
    /\ picked # <<>>
    /\ LET s == SchedServer
           pname == Head(picked)
           k == <<s, pname>>
           processed == ~r.empty /\ printpos_enabled
       IN  /\ IF processed
              THEN process_printpos_response(k, r)
              ELSE /\ bumped' = {}
                   /\ UNCHANGED <<last_tp_times, last_player_zones, cooldown_until,
                                  near_set, sentCmds, hist>>
           /\ farAt' = [farAt EXCEPT ![k] =
                            IF processed /\ r.coords /\ is_far(r.pos) THEN now ELSE -1]
           /\ picked' = Tail(picked)
           /\ IF \E e \in cooldown_until' : e[1] = k
              THEN UNCHANGED <<poll_queues, scan_queues>>
              ELSE IF pname \in near_set'[s]
              THEN /\ poll_queues' =
                        IF pname \notin ready_set(s) /\ pname \notin expired_set(s)
                        THEN [poll_queues EXCEPT ![s] = Append(@, pname)]
                        ELSE poll_queues
                   /\ UNCHANGED scan_queues
              ELSE /\ scan_queues' =
                        IF pname \notin scan_set(s)
                        THEN [scan_queues EXCEPT ![s] = Append(@, pname)]
                        ELSE scan_queues
                   /\ UNCHANGED poll_queues
    /\ UNCHANGED <<now, ZONES, printpos_enabled, expired_queues, tickAt, rconVars, watchVars, dispatchVars, healthVars,
                   empty_server_until, zoneFileVars, pauseVars, setupVars>>

\* the look-aheads in time used so far, read off the clock
SchedStepsUsed(t) ==
    ((t - StartTime) \div FAR_SKIP_SECONDS)
        + (((t - StartTime) % FAR_SKIP_SECONDS) \div PRINTPOS_TICK_INTERVAL)

\* time passes for the scheduler
SchedAdvance(d) ==
    /\ SchedStepsUsed(now) < MaxSchedSteps
    /\ now' = now + d
    /\ UNCHANGED <<ZONES, printpos_enabled, last_tp_times, last_player_zones,
                   cooldown_until, near_set, sentCmds, hist, schedVars, nonTpVars>>

NextSched ==
    \/ TickStart
    \/ \E r \in SchedReplies : PollOne(r)
    \/ \E d \in SchedSteps : SchedAdvance(d)

InitSched ==
    /\ InitRcon /\ RCON_ENABLED = TRUE /\ RCON_WEB_ENABLED = FALSE /\ InitWatch /\ InitSide
    /\ InitTp(AllZones) /\ InitLanes(SchedPlayers)

SpecSched == InitSched /\ [][NextSched]_vars

\* the players the scheduler holds for server s, in a lane or in cooldown
known_players(s) ==
    ready_set(s) \cup expired_set(s) \cup scan_set(s)
        \cup {e[1][2] : e \in {e \in cooldown_until : e[1][1] = s}}

Keep(q, S) == SelectSeq(q, LAMBDA x : x \in S)

\* update_connected_players(server_key, names): players who left are
\* discarded, new ones wait in the SCAN lane; a pool that becomes empty opens
\* the server's empty window
UpdateConnectedPlayers(s, names) ==
    LET here == RangeOf(names)
        new == Keep(names, here \ known_players(s))
    IN  /\ poll_queues' = [poll_queues EXCEPT ![s] = Keep(@, here)]
        /\ expired_queues' = [expired_queues EXCEPT ![s] = Keep(@, here)]
        /\ scan_queues' = [scan_queues EXCEPT ![s] = Keep(@, here) \o new]
        /\ cooldown_until' = {e \in cooldown_until : e[1][1] # s \/ e[1][2] \in here}
        /\ near_set' = [near_set EXCEPT ![s] = @ \cap here]
        /\ last_player_zones' = [k \in PollKeys |->
                IF k[1] = s /\ k[2] \notin here THEN {} ELSE last_player_zones[k]]
        /\ farAt' = [k \in PollKeys |->
                IF k[1] = s /\ k[2] \notin here THEN -1 ELSE farAt[k]]
        /\ empty_server_until' =
                IF here = {} /\ known_players(s) # {}
                THEN [empty_server_until EXCEPT ![s] = now + EMPTY_SERVER_COOLDOWN_SECONDS]
                ELSE empty_server_until
        /\ UNCHANGED <<now, ZONES, printpos_enabled, last_tp_times, sentCmds, hist,
                       picked, tickAt, healthVars, zoneFileVars, bumped, pauseVars, setupVars, rconVars, watchVars,
                       dispatchVars>>

\* the look-aheads in time used so far by the pool, read off the clock
PoolStepsUsed(t) ==
    ((t - StartTime) \div EMPTY_SERVER_COOLDOWN_SECONDS)
        + (((t - StartTime) % EMPTY_SERVER_COOLDOWN_SECONDS) \div PRINTPOS_TICK_INTERVAL)

\* time passes: a tick or a whole empty-server window
PoolAdvance(d) ==
    /\ PoolStepsUsed(now) < MaxPoolSteps
    /\ now' = now + d
    /\ UNCHANGED <<ZONES, printpos_enabled, last_tp_times, last_player_zones,
                   cooldown_until, near_set, sentCmds, hist, schedVars, nonTpVars>>

\* the scheduler with the player-list refresh feeding its pool
NextPool ==
    \/ TickStart
    \/ \E r \in SchedReplies : PollOne(r)
    \/ \E names \in PoolNames : UpdateConnectedPlayers(SchedServer, names)
    \/ \E d \in {PRINTPOS_TICK_INTERVAL, EMPTY_SERVER_COOLDOWN_SECONDS} : PoolAdvance(d)

SpecPool == InitSched /\ [][NextPool]_vars

\* ---------------------------------------------------- zone administration

\* set_tp_zone(...) called by an admin command; the save ends as `outcome`
SetTpZone(inp, outcome) ==
    /\ ZONES' = set_tp_zone(ZONES, inp)
    /\ disk' = save_zones_to_disk(ZONES', disk, outcome)
    /\ lastOp' = [kind |-> "set", ty |-> inp.tp_type, zones |-> {new_zone(inp)},
                  replaced |-> ZoneKey(inp) \in DOMAIN ZONES]
    /\ UNCHANGED <<now, printpos_enabled, last_tp_times, last_player_zones,
                   cooldown_until, near_set, sentCmds, hist, schedVars,
                   healthVars, empty_server_until, bumped, pauseVars, setupVars, rconVars, watchVars, dispatchVars>>

\* clear_tp_type(tp_type)
ClearTpType(ty, outcome) ==
    /\ ZONES' = clear_tp_type(ZONES, ty)
    /\ disk' = save_zones_to_disk(ZONES', disk, outcome)
    /\ lastOp' = [kind |-> "clear", ty |-> ty, zones |-> {},
                  replaced |-> \E k \in DOMAIN ZONES : k[1] = ty]
    /\ UNCHANGED <<now, printpos_enabled, last_tp_times, last_player_zones,
                   cooldown_until, near_set, sentCmds, hist, schedVars,
                   healthVars, empty_server_until, bumped, pauseVars, setupVars, rconVars, watchVars, dispatchVars>>

\* delete_tp_zone(tp_type, slot): False, and no save, when there is no such slot
DeleteTpZone(zk, outcome) ==
    /\ IF zk \notin DOMAIN ZONES
       THEN UNCHANGED <<ZONES, disk, lastOp>>
       ELSE /\ ZONES' = delete_tp_zone(ZONES, zk)
            /\ disk' = save_zones_to_disk(ZONES', disk, outcome)
            /\ lastOp' = [kind |-> "delete", ty |-> zk[1], zones |-> {},
                          replaced |-> TRUE]
    /\ UNCHANGED <<now, printpos_enabled, last_tp_times, last_player_zones,
                   cooldown_until, near_set, sentCmds, hist, schedVars,
                   healthVars, empty_server_until, bumped, pauseVars, setupVars, rconVars, watchVars, dispatchVars>>

\* /tp-set-zone: the arguments of the set_tp_zone call for slot i
slot_input(ty, i, spawns) ==
    [tp_type |-> ty, slot |-> i, zone_x |-> 0, zone_y |-> 0, zone_z |-> 0,
     trigger_radius_x2 |-> 3, dest |-> spawns[i], spawn_points |-> spawns]

\* /tp-set-zone: `for slot_idx, (x, y, z) in enumerate(spawn_points_list, start=1)`
\* from slot i on, each set_tp_zone ending with its own save
RECURSIVE set_slots(_, _, _, _, _, _)
set_slots(table, d, ty, spawns, outcomes, i) ==
    IF i > Len(spawns) THEN [table |-> table, disk |-> d]
    ELSE LET t == set_tp_zone(table, slot_input(ty, i, spawns))
         IN  set_slots(t, save_zones_to_disk(t, d, outcomes[i]), ty, spawns, outcomes, i + 1)

\* /tp-set-zone with a task switch after clear_tp_type
tp_set_zone_yields(cleared, final) == cleared

\* /tp-set-zone: clear_tp_type and the set_tp_zone loop run with no await in
\* between, so the next table any other coroutine sees is the final one
tp_set_zone_stretch(cleared, final) == final

\* the /tp-set-zone command from clear_tp_type to the end of its loop
TpSetZone(ty, spawns, outcomes) ==
    LET cleared == clear_tp_type(ZONES, ty)
        res == set_slots(cleared, save_zones_to_disk(cleared, disk, outcomes[0]),
                         ty, spawns, outcomes, 1)
    IN  /\ ZONES' = tp_set_zone_stretch(cleared, res.table)
        /\ disk' = res.disk
        /\ lastOp' = [kind |-> "tp_set_zone", ty |-> ty,
                      zones |-> {new_zone(slot_input(ty, i, spawns)) : i \in 1..Len(spawns)},
                      replaced |-> \E k \in DOMAIN ZONES : k[1] = ty]
        /\ UNCHANGED <<now, printpos_enabled, last_tp_times, last_player_zones,
                       cooldown_until, near_set, sentCmds, hist, schedVars,
                       healthVars, empty_server_until, bumped, pauseVars, setupVars, rconVars, watchVars, dispatchVars>>

\* the bot is started again: tp_zones is imported and reads the zone file
Restart ==
    /\ ZONES' = load_zones_from_disk(disk)
    /\ lastOp' = NoOp
    /\ last_tp_times' = [k \in PollKeys, zk \in ZoneKeys |-> 0]
    /\ last_player_zones' = [k \in PollKeys |-> {}]
    /\ cooldown_until' = {}
    /\ near_set' = [s \in Clients |-> {}]
    /\ sentCmds' = {}
    /\ hist' = [k \in PollKeys, zk \in ZoneKeys |-> NoStreak]
    /\ bumped' = {}
    /\ UNCHANGED <<now, printpos_enabled, disk, schedVars, healthVars,
                   empty_server_until, pauseVars, setupVars, rconVars, watchVars, dispatchVars>>

\* start-up with whatever zone file is there
InitZones ==
    /\ InitRcon /\ RCON_ENABLED = TRUE /\ RCON_WEB_ENABLED = FALSE /\ InitWatch /\ InitSide
    /\ InitLanes(<<>>)
    /\ \E d \in ZoneDisks :
            /\ InitTpState(load_zones_from_disk(d))
            /\ disk = d
            /\ lastOp = NoOp

\* zone administration while positions are read
NextZones ==
    \/ \E inp \in SetInputs, o \in SaveOutcomes : SetTpZone(inp, o)
    \/ \E ty \in TpTypes, o \in SaveOutcomes : ClearTpType(ty, o)
    \/ \E ty \in TpTypes, sl \in Slots, o \in SaveOutcomes : DeleteTpZone(<<ty, sl>>, o)
    \/ \E ty \in TpTypes, spawns \in TpSetSpawns :
            \E outcomes \in SaveRuns(Len(spawns)) : TpSetZone(ty, spawns, outcomes)
    \/ Restart
    \/ \E k \in TpKeys, r \in ZoneReplies : ProcessPrintposResponse(k, r)

SpecZones == InitZones /\ [][NextZones]_vars

\* set_enabled(flag): another subsystem pauses or resumes the scheduler
SetEnabled(flag) ==
    /\ printpos_enabled' = flag
    /\ UNCHANGED <<now, ZONES, last_tp_times, last_player_zones, cooldown_until,
                   near_set, sentCmds, hist, schedVars, nonTpVars>>

\* the scheduler with the toggle in other hands
NextPause ==
    \/ TickStart
    \/ \E r \in SchedReplies : PollOne(r)
    \/ \E d \in SchedSteps : SchedAdvance(d)
    \/ \E flag \in BOOLEAN : SetEnabled(flag)

SpecPause == InitSched /\ [][NextPause]_vars

NextTp ==
    \/ \E k \in TpKeys, r \in Replies : ProcessPrintposResponse(k, r)
    \/ \E d \in {1, 2} : Advance(d)

InitTpAll ==
    /\ InitRcon /\ RCON_ENABLED = TRUE /\ RCON_WEB_ENABLED = FALSE /\ InitWatch /\ InitSide
    /\ InitLanes(<<>>)
    /\ \E z \in ZoneConfigs : InitTp(z)

SpecTp == InitTpAll /\ [][NextTp]_vars

\* the command side of the control plane: two tasks issue sends and fan-outs
Next ==
    \/ \E t \in Tasks, k \in InputKeys : ManagerSend(t, k)
    \/ \E t \in FanOutTasks : Broadcast(t)
    \/ \E t \in FanOutTasks : SendRconAll(t)
    \/ \E t \in Tasks : Acquire(t)
    \/ \E t \in Tasks : ConnectReuse(t)
    \/ \E t \in Tasks : ConnectOpen(t)
    \/ \E t \in Tasks : ConnectFail(t)
    \/ \E t \in Tasks : Write(t)
    \/ \E t \in Tasks, f \in CmdFrames : RecvFrame(t, f)
    \/ \E t \in Tasks : RecvClosed(t)
    \/ \E t \in Tasks : Timeout(t)
    \/ \E c \in Clients : Drop(c)
    \/ Tick

Spec == Init /\ [][Next]_vars

\* the ingest side: every server's watcher reads its console stream while one
\* task sends commands over the command sockets
NextIngest ==
    \/ \E t \in IngestTasks, k \in InputKeys : ManagerSend(t, k)
    \/ \E t \in IngestTasks : Acquire(t)
    \/ \E t \in IngestTasks : ConnectReuse(t)
    \/ \E t \in IngestTasks : ConnectOpen(t)
    \/ \E t \in IngestTasks : ConnectFail(t)
    \/ \E t \in IngestTasks : Write(t)
    \/ \E t \in IngestTasks, f \in CmdFrames : RecvFrame(t, f)
    \/ \E t \in IngestTasks : RecvClosed(t)
    \/ \E t \in IngestTasks : Timeout(t)
    \/ \E c \in Clients : Drop(c)
    \/ Tick
    \/ \E s \in IngestServers : WatchIdle(s)
    \/ \E s \in IngestServers : WatchConnect(s)
    \/ \E s \in IngestServers, ch \in BOOLEAN : WatchError(s, ch)
    \/ \E s \in IngestServers, f \in Frames : WatchRecv(s, f)

SpecIngest == InitIngest /\ [][NextIngest]_vars

\* the scheduler's adapter: one task sends commands through tp_send_rcon
NextAdapter ==
    \/ \E t \in IngestTasks, k \in InputKeys : RunRconCommand(t, k)
    \/ \E t \in IngestTasks : Acquire(t)
    \/ \E t \in IngestTasks : ConnectReuse(t)
    \/ \E t \in IngestTasks : ConnectOpen(t)
    \/ \E t \in IngestTasks : ConnectFail(t)
    \/ \E t \in IngestTasks : Write(t)
    \/ \E t \in IngestTasks, f \in CmdFrames : RecvFrame(t, f)
    \/ \E t \in IngestTasks : RecvClosed(t)
    \/ \E t \in IngestTasks : Timeout(t)
    \/ \E c \in Clients : Drop(c)
    \/ Tick

SpecAdapter == InitAdapter /\ [][NextAdapter]_vars

\* start-up: the health check connects every client while the player-list
\* refresh, started before it, sends through run_rcon_command
InitHealth ==
    /\ InitRcon /\ RCON_ENABLED = TRUE /\ RCON_WEB_ENABLED = TRUE
    /\ InitTp(AllZones) /\ InitLanes(<<>>) /\ InitWatch /\ InitSide

NextHealth ==
    \/ HealthConnectStart
    \/ HealthConnectOpen
    \/ HealthConnectFail
    \/ \E t \in IngestTasks, k \in InputKeys : RunRconCommand(t, k)
    \/ \E t \in IngestTasks : Acquire(t)
    \/ \E t \in IngestTasks : ConnectReuse(t)
    \/ \E t \in IngestTasks : ConnectOpen(t)
    \/ \E t \in IngestTasks : ConnectFail(t)
    \/ \E t \in IngestTasks : Write(t)
    \/ \E t \in IngestTasks, f \in CmdFrames : RecvFrame(t, f)
    \/ \E t \in IngestTasks : RecvClosed(t)
    \/ \E t \in IngestTasks : Timeout(t)
    \/ \E c \in Clients : Drop(c)
    \/ Tick

SpecHealth == InitHealth /\ [][NextHealth]_vars

\* the watchers of all servers over time: connects, losses, alerts, back-off
NextWatch ==
    \/ \E s \in Clients : WatchConnect(s)
    \/ \E s \in Clients, ch \in BOOLEAN : WatchConnectFail(s, ch)
    \/ \E s \in Clients, ch \in BOOLEAN : WatchError(s, ch)
    \/ \E s \in Clients : WatchClosed(s)
    \/ \E s \in Clients : WatchWake(s)
    \/ \E s \in Clients, f \in WatchFrames : WatchRecv(s, f)
    \/ \E d \in WatchSteps : WatchAdvance(d)

SpecWatch == Init /\ [][NextWatch]_vars

\* one watcher, its console stream frame by frame and consumer by consumer
NextDispatch ==
    \/ \E s \in DispatchServers : WatchConnect(s)
    \/ \E s \in DispatchServers, ch \in BOOLEAN : WatchError(s, ch)
    \/ \E s \in DispatchServers : FrameArrives(s)
    \/ \E s \in DispatchServers, f \in Frames, kind \in LineKinds : WatchRead(s, f, kind)
    \/ \E s \in DispatchServers : ConsumerReturns(s)
    \/ \E s \in DispatchServers, ch \in BOOLEAN : ConsumerRaises(s, ch)

SpecDispatch == Init /\ [][NextDispatch]_vars

\* ================================================================ claims

IsConsoleOutput(f) == f.kind = "json" /\ f.id \in {0, NoId}

\* C1: every send_command call that returns does so with the frame whose
\* Identifier is the id this call assigned; the ids handed out on one
\* connection are pairwise distinct, so no two calls in flight share one.
C1_ResponsesMatched ==
    /\ lastEvent.kind = "returned" =>
            /\ lastEvent.frame.kind = "json"
            /\ lastEvent.frame.id = lastEvent.ident
            /\ lastEvent.ident \in issued[lastEvent.arg]
    /\ \A c \in Clients : Cardinality(issued[c]) = next_id[c] - 1
    /\ \A t1, t2 \in Tasks :
            (t1 # t2 /\ pc[t1] = "wait" /\ pc[t2] = "wait" /\ cl[t1] = cl[t2])
                => identifier[t1] # identifier[t2]

\* a call returned its own frame (id 2) while another task was queued on the
\* same client
C1_Witness ==
    /\ lastEvent.kind = "returned"
    /\ lastEvent.ident = 2
    /\ \E t \in Tasks : t # lastEvent.who /\ pc[t] = "acquire" /\ cl[t] = lastEvent.arg

C3_NextSendReconnects ==
    /\ \A c \in Clients : recovery[c] = "failed" => ws[c] # "open"
    /\ \A t \in Tasks : pc[t] \in {"write", "wait"} => recovery[cl[t]] # "failed"
    /\ lastEvent.kind = "returned" => recovery[lastEvent.arg] # "failed"

\* a call returned its response over a socket opened after an earlier failure
C3_Witness ==
    /\ lastEvent.kind = "returned"
    /\ recovery[lastEvent.arg] = "reopened"
    /\ lastEvent.frame.id = lastEvent.ident

\* C4: when waiting for the response fails, send_command clears the socket
\* handle, raises to its caller and sends nothing again: a call writes its
\* request frame at most once.
C4_FailureClosesAndRaises ==
    /\ [](\A t \in Tasks : writes[t] <= 1)
    /\ [][\A t \in Tasks : (pc[t] = "wait" /\ pc'[t] # "wait") =>
            \/ lastEvent'.kind = "returned" /\ lastEvent'.who = t
            \/ /\ lastEvent'.kind = "raised"
               /\ lastEvent'.who = t
               /\ lastEvent'.at = "wait"
               /\ ws'[cl[t]] = "none"
               /\ lock'[cl[t]] = NoTask
               /\ pc'[t] \in {"idle", "acquire"}
               /\ next_id' = next_id]_vars

\* a wait failed and left the client without a socket
C4_Witness ==
    /\ lastEvent.kind = "raised"
    /\ lastEvent.at = "wait"
    /\ lastEvent.ident >= 1
    /\ ws[lastEvent.arg] = "none"

\* C5: a send_command call never waits longer than the per-command timeout
\* after its request was written.
C5_WaitBoundedByTimeout ==
    \A t \in Tasks : pc[t] = "wait" => sinceWrite[t] <= CommandTimeout

InCall(t, c) == pc[t] \in {"connect", "write", "wait"} /\ cl[t] = c

\* C6: at most one task is inside send_command on one client, so at most one
\* request is in flight per connection; a task queued on a client that no
\* task is inside can enter, whatever goes on on the other clients.
C6_OneInFlightPerConnection ==
    /\ \A c \in Clients : Cardinality({t \in Tasks : InCall(t, c)}) <= 1
    /\ \A c \in Clients, t \in Tasks : InCall(t, c) => lock[c] = t
    /\ \A t \in Tasks :
            (pc[t] = "acquire" /\ next_id[cl[t]] <= MaxId
                /\ ~\E u \in Tasks : InCall(u, cl[t]))
            => ENABLED Acquire(t)

\* two requests in flight at once, on different servers
C6_Witness ==
    \E t1, t2 \in Tasks : pc[t1] = "wait" /\ pc[t2] = "wait" /\ cl[t1] # cl[t2]

C8_UnknownServerKey ==
    /\ [](lastEvent.kind = "KeyError" =>
            \A c \in RangeOf(RCON_CONFIGS) : Lower(c) # Lower(lastEvent.arg))
    /\ [](lastEvent.kind = "send" =>
            \E c \in RangeOf(RCON_CONFIGS) : Lower(c) = Lower(lastEvent.arg))
    /\ [][(lastEvent' # lastEvent /\ lastEvent'.kind = "KeyError") =>
            UNCHANGED <<ws, lock, next_id, issued, recovery, pc, cl, identifier,
                        writes, todo, results>>]_vars
    /\ [][(lastEvent' # lastEvent /\ lastEvent'.kind = "send") =>
            /\ pc'[lastEvent'.who] = "acquire"
            /\ cl'[lastEvent'.who] = Lower(lastEvent'.arg)]_vars

\* an unknown key was refused while a socket was open and ids had been used
C8_Witness ==
    /\ lastEvent.kind = "KeyError"
    /\ lastEvent.arg = "sx"
    /\ \E c \in Clients : ws[c] = "open" /\ next_id[c] > 1

\* C9: while a player stays inside a zone at most one teleport command is sent
\* for that zone, on the read that found the player inside after a read
\* outside (or no read); a first visit (no earlier teleport of this player
\* into this zone) sends exactly one.
C9_EdgeTriggeredTeleport ==
    \A k \in PollKeys, zk \in ZoneKeys :
        hist[k, zk].len >= 1 =>
            /\ hist[k, zk].tps <= 1
            /\ hist[k, zk].late = 0
            /\ hist[k, zk].first => hist[k, zk].tps = 1

\* a player read inside zone A three times running, teleported once, the
\* cooldown of that teleport long over
C9_Witness ==
    \E k \in PollKeys :
        /\ hist[k, ZoneKey(ZoneA)].len = 3
        /\ hist[k, ZoneKey(ZoneA)].tps = 1
        /\ hist[k, ZoneKey(ZoneA)].first
        /\ now - last_tp_times[k, ZoneKey(ZoneA)] >= TP_ZONE_COOLDOWN

\* C10: an entry into a zone (a read inside following a read outside) sends no
\* teleport command when the previous teleport of that player into that zone
\* is less than TP_ZONE_COOLDOWN old, and exactly one when it is not.
C10_ReentryAfterCooldown ==
    \A k \in PollKeys, zk \in ZoneKeys :
        hist[k, zk].len >= 1 =>
            hist[k, zk].tps = (IF hist[k, zk].cooled THEN 1 ELSE 0)

\* where a player waits: the index in the lane, 0 when not in it
PosIn(q, pname) ==
    IF \E i \in DOMAIN q : q[i] = pname
    THEN CHOOSE i \in DOMAIN q : q[i] = pname /\ \A j \in 1..(i - 1) : q[j] # pname
    ELSE 0
LaneOf(k) ==
    IF PosIn(expired_queues[k[1]], k[2]) > 0 THEN "expired"
    ELSE IF PosIn(poll_queues[k[1]], k[2]) > 0 THEN "ready"
    ELSE IF PosIn(scan_queues[k[1]], k[2]) > 0 THEN "scan"
    ELSE "none"
Rank(k) ==
    CASE LaneOf(k) = "expired" -> PosIn(expired_queues[k[1]], k[2])
      [] LaneOf(k) = "ready" -> PosIn(poll_queues[k[1]], k[2])
      [] LaneOf(k) = "scan" -> PosIn(scan_queues[k[1]], k[2])
      [] OTHER -> 0
InBatch(k) == k[1] = SchedServer /\ \E i \in DOMAIN picked : picked[i] = k[2]
SkipRunning(k) == farAt[k] # -1 /\ now - farAt[k] < FAR_SKIP_SECONDS

\* C11: a player whose last read was far from every zone center is in no
\* lane and in no batch until FAR_SKIP_SECONDS have passed since that read,
\* and the first tick after that time puts the player into the expired lane
\* or straight into the batch.
C11_FarPlayersSkipped ==
    [][\A k \in PollKeys :
        /\ SkipRunning(k)' => (LaneOf(k)' = "none" /\ ~InBatch(k)')
        /\ (/\ tickAt' # tickAt
            /\ printpos_enabled
            /\ farAt[k] # -1
            /\ now - farAt[k] >= FAR_SKIP_SECONDS)
                => (LaneOf(k)' = "expired" \/ InBatch(k)')]_vars

\* a player read far away is, FAR_SKIP_SECONDS later, picked for a query again
C11_Witness ==
    \E k \in PollKeys :
        /\ InBatch(k)
        /\ farAt[k] # -1
        /\ now - farAt[k] >= FAR_SKIP_SECONDS

\* C12: at every tick of the enabled scheduler each player waiting in a lane
\* is picked or moves towards the head of that lane, and between ticks no
\* waiting player falls back: the wait of every eligible player is bounded
\* by the player's place in the lane, whatever the other lanes hold.
C12_NoLaneStarved ==
    [][\A k \in PollKeys :
        Rank(k) > 0 =>
            IF tickAt' # tickAt /\ printpos_enabled
            THEN \/ InBatch(k)'
                 \/ (LaneOf(k)' = LaneOf(k) /\ Rank(k)' < Rank(k))
            ELSE LaneOf(k)' = LaneOf(k) /\ Rank(k)' <= Rank(k)]_vars

\* a tick served all three lanes at once: a full batch led by a player woken
\* from cooldown, then ready players, then a player of the scan lane
C12_Witness ==
    /\ Len(picked) = PRINTPOS_BATCH_SIZE
    /\ tickAt = now
    /\ farAt[<<SchedServer, picked[1]>>] # -1
    /\ picked[2] \in near_set[SchedServer]
    /\ picked[PRINTPOS_BATCH_SIZE] \notin near_set[SchedServer]
    /\ farAt[<<SchedServer, picked[PRINTPOS_BATCH_SIZE]>>] = -1

\* C13: when the server answered the command, tp_send_rcon returns the text
\* of that answer.
C13_AdapterReturnsReply ==
    \A c \in Clients :
        (lastEvent.kind = "tp_returned" /\ lastEvent.log[c] = "ok")
            => lastEvent.res[c] = lastEvent.frame.msg

CanRead(s) == ENABLED (\E f \in Frames, kind \in LineKinds : WatchRead(s, f, kind))

\* C14: an exception raised by a consumer while a console line is handled
\* leaves the watcher on its connection: the stream is not lost, the unread
\* frames stay, and the next frame can be read.
C14_HandlerErrorKeepsStream ==
    /\ [][\A s \in Clients :
            (raisedBy'[s] # raisedBy[s] /\ raisedBy'[s] # {}) =>
                /\ watch'[s] \in {"streaming", "handling"}
                /\ lostAt'[s] = lostAt[s]
                /\ inbox'[s] = inbox[s]
                /\ alert_cooldown' = alert_cooldown]_vars
    /\ [](\A s \in Clients :
            (lastFail[s] > 0 /\ watch[s] = "streaming" /\ inbox[s] # <<>>)
                => CanRead(s))

\* a later frame is being handled on the connection on which the handling of
\* an earlier line raised
C14_Witness ==
    \E s \in Clients :
        /\ watch[s] = "handling"
        /\ lastFail[s] > 0
        /\ hline[s] > lastFail[s]

\* C15: when exactly one consumer raised while a console line was handled,
\* every other consumer that applies to the line was still invoked for it.
C15_FailureDoesNotSkipConsumers ==
    \A s \in Clients :
        (watch[s] = "streaming" /\ hline[s] > 0 /\ Cardinality(raisedBy[s]) = 1)
            => (applicable(hkind[s]) \ {"printpos"}) \subseteq invoked[s]

\* C16: while a consumer's call for a line is pending, the watcher can read
\* the frames that arrived after it, and the other consumers that apply to
\* the line have been invoked.
C16_SlowConsumerDoesNotStall ==
    \A s \in Clients :
        watch[s] = "handling" =>
            /\ inbox[s] # <<>> => CanRead(s)
            /\ (applicable(hkind[s]) \ {"printpos"}) \subseteq invoked[s]

\* C17: the lines of one server are handed to the handlers in the order their
\* frames arrived: the numbers of the handled frames increase, and every
\* unread frame arrived after every handled one.
C17_HandledInArrivalOrder ==
    \A s \in Clients :
        /\ \A i, j \in 1..Len(started[s]) : i < j => started[s][i] < started[s][j]
        /\ \A i \in 1..Len(started[s]), j \in 1..Len(inbox[s]) :
                started[s][i] < inbox[s][j]
        /\ watch[s] = "handling" => hline[s] = started[s][Len(started[s])]

\* three lines of one connection were handled, the first two while the third
\* was waiting in the socket
C17_Witness ==
    \E s \in Clients :
        /\ Len(started[s]) = 3
        /\ lastEvent.kind = "watch"
        /\ lastEvent.at = "console"
        /\ arrived[s] = 3

\* C18: a watcher that lost its stream (connect failure, socket error, stream
\* ended) does not try to connect again before WATCH_BACKOFF seconds have
\* passed since the loss.
C18_ReconnectAfterBackoff ==
    [][\A s \in Clients :
        (watch[s] = "disconnected" /\ watch'[s] \in {"streaming", "backoff"})
            => (lostAt[s] = -1 \/ now - lostAt[s] >= WATCH_BACKOFF)]_vars

\* C19: a watcher that enters Streaming enables the scheduler, so the
\* scheduler is never disabled while the watcher whose loss paused it last is
\* streaming.
C19_StreamingResumesScheduler ==
    /\ [][\A s \in Clients :
            (watch[s] # "streaming" /\ watch'[s] = "streaming") => printpos_enabled']_vars
    /\ [](\A s \in Clients :
            (~printpos_enabled /\ pausedBy = s) => watch[s] \notin {"streaming", "handling"})

\* the loss of a stream paused the scheduler, and the same watcher is
\* streaming again with the scheduler enabled
C19_Witness ==
    \E s \in Clients :
        /\ pausedBy = s
        /\ alert_cooldown[s] > 0
        /\ watch[s] = "streaming"
        /\ printpos_enabled

\* C20: two disconnect alerts of one server are at least
\* RCON_DISCONNECT_DELAY apart, an error is passed over only inside the
\* server's own window, and a server's alert leaves the windows of the other
\* servers alone.
C20_OneAlertPerWindow ==
    /\ [](\A s \in Clients :
            /\ Len(alertLog[s]) = 2 =>
                    alertLog[s][2] - alertLog[s][1] >= RCON_DISCONNECT_DELAY
            /\ Len(alertLog[s]) >= 1 =>
                    alert_cooldown[s] >= alertLog[s][Len(alertLog[s])])
    /\ [][\A s \in Clients :
            (lastEvent' # lastEvent /\ lastEvent'.kind = "alert_skipped"
                /\ lastEvent'.who = s)
            => (alert_cooldown[s] > 0 /\ now - alert_cooldown[s] < RCON_DISCONNECT_DELAY)]_vars
    /\ [][\A s, t \in Clients :
            (s # t /\ alert_cooldown'[s] # alert_cooldown[s])
            => (alert_cooldown'[t] = alert_cooldown[t] /\ alertLog'[t] = alertLog[t])]_vars

\* a server was alerted twice, and the other server once inside the first
\* one's window
C20_Witness ==
    \E s, t \in Clients :
        /\ s # t
        /\ Len(alertLog[s]) = 2
        /\ Len(alertLog[t]) >= 1
        /\ alertLog[t][1] > alertLog[s][1]
        /\ alertLog[t][1] - alertLog[s][1] < RCON_DISCONNECT_DELAY

C22_DisabledSchedulerIdle ==
    [][~printpos_enabled =>
        /\ picked' = picked
        /\ <<poll_queues, expired_queues, scan_queues>>' =
                <<poll_queues, expired_queues, scan_queues>>
        /\ <<cooldown_until, near_set, last_player_zones>>' =
                <<cooldown_until, near_set, last_player_zones>>
        /\ sentCmds' = sentCmds]_vars

\* C23: inside a server's empty window no position query is issued for it.
C23_NoQueryInEmptyWindow ==
    [][empty_server_until[SchedServer] > now =>
            ~(picked # <<>> /\ picked' = Tail(picked))]_vars

\* C24: whatever a position check reads is the zone set as a whole admin
\* operation left it: after /tp-set-zone the zones of the type are exactly the
\* requested ones, after a clear there is none, after a set the zone is there.
C24_ZoneOpsAllOrNothing ==
    LET of_type == {ZONES[k] : k \in {kk \in DOMAIN ZONES : kk[1] = lastOp.ty}}
    IN  /\ lastOp.kind = "tp_set_zone" => of_type = lastOp.zones
        /\ lastOp.kind = "clear" => of_type = {}
        /\ lastOp.kind = "set" => lastOp.zones \subseteq of_type

\* a position read after a /tp-set-zone that replaced zones teleports into
\* slot 2, which only that command centered on the player
C24_Witness ==
    /\ lastOp.kind = "tp_set_zone" /\ lastOp.replaced
    /\ Cardinality(lastOp.zones) = 2
    /\ \E c \in sentCmds : c.zone = <<"LAUNCHSITE", 2>>

\* C25: once a zone-store mutation has returned, the zone file is a complete
\* document and holds exactly the zones in memory.
C25_DiskMatchesMemory ==
    lastOp.kind # "none" => disk = SavedDisk(ZONES)

\* C26: a teleport command can only carry one of the zone's spawn points, and
\* it can carry each of them.
C26_SpawnPointChoice ==
    \A k \in TpKeys, r \in ZoneReplies :
        /\ ~ENABLED (/\ ProcessPrintposResponse(k, r)
                     /\ \E c \in sentCmds' :
                            c.dest \notin RangeOf(ZONES[c.zone].spawn_points))
        /\ \A zk \in teleport_zones(k, r.pos, now) :
             \A p \in RangeOf(ZONES[zk].spawn_points) :
                ENABLED (/\ ProcessPrintposResponse(k, r)
                         /\ [player |-> k, zone |-> zk, dest |-> p] \in sentCmds')

\* the fifth of five spawn points was chosen
C26_Witness ==
    \E c \in sentCmds :
        /\ c.zone \in DOMAIN ZONES
        /\ ZONES[c.zone].spawn_points = FivePoints
        /\ c.dest = FivePoints[5]

\* C27: a client never has a second open command socket: no socket is open
\* without being the one the client holds in self.ws.
C27_OneOpenSocket == \A c \in Clients : leaked[c] = 0

\* C30: every stored zone has at least one spawn point and sits under its own
\* (type, slot); a set on an existing key leaves that key holding the new zone.
C30_ZoneStoreInvariant ==
    /\ \A k \in DOMAIN ZONES :
            /\ ZoneKey(ZONES[k]) = k
            /\ ZONES[k].spawn_points # <<>>
    /\ lastOp.kind = "set" =>
            \A z \in lastOp.zones :
                /\ ZoneKey(z) \in DOMAIN ZONES
                /\ ZONES[ZoneKey(z)].dest = z.dest
                /\ Len(ZONES[ZoneKey(z)].spawn_points) >= 1

\* a set without a spawn list replaced the zone that was under the key
C30_Witness ==
    /\ lastOp.kind = "set" /\ lastOp.replaced
    /\ ZoneKey(ZoneNoList) \in DOMAIN ZONES
    /\ ZONES[ZoneKey(ZoneNoList)].spawn_points = <<ZoneNoList.dest>>

\* C28: while a broadcast waits for one server's response, the command has
\* been written to every configured server: none is still to be visited.
C28_BroadcastConcurrent ==
    \A t \in FanOutTasks :
        (op[t] = "broadcast" /\ pc[t] = "wait") => Len(todo[t]) <= 1

\* C29: an unparseable frame is dropped on both read paths: the watcher skips
\* it and keeps streaming, and a send_command that waits on an open socket
\* inside its timeout neither fails nor loses its socket.
C29_MalformedFrameDropped ==
    [][/\ (lastEvent' # lastEvent /\ lastEvent'.kind = "watch"
                /\ lastEvent'.frame.kind = "bad")
            => (lastEvent'.at = "skipped" /\ watch' = watch)
       /\ \A t \in Tasks :
            (pc[t] = "wait" /\ ws[cl[t]] = "open" /\ sinceRecv[t] < CommandTimeout)
                => /\ ws'[cl[t]] # "none"
                   /\ ~(lastEvent' # lastEvent /\ lastEvent'.kind = "raised"
                            /\ lastEvent'.who = t)]_vars

\* C32: after every read that parsed coordinates, near or far, the stored
\* membership of the player is exactly the set of zones containing the position.
C32_MembershipIsCurrent ==
    [][\A k \in TpKeys, r \in Replies :
            (r.coords /\ ProcessPrintposResponse(k, r))
                => last_player_zones'[k] = current_zones(r.pos)]_vars

\* C35: a read inside the sphere that one /tp-set-zone configured sends the
\* player one teleport command for it, however many slots the command stored.
C35_OneCommandPerSphere ==
    [][\A k \in TpKeys, r \in ZoneReplies :
            (ProcessPrintposResponse(k, r) /\ lastOp.kind = "tp_set_zone")
                => Cardinality({c \in sentCmds' :
                        c.player = k /\ ZONES[c.zone] \in lastOp.zones}) <= 1]_vars

\* ------------------------------------------------- _pick_players on full lanes

\* more connected players than one batch holds
PickPlayers == <<"q1", "q2", "q3", "q4", "q5", "q6", "q7">>

\* the most players under a far-skip cooldown, and waiting in the SCAN lane
MaxCooling == 2
MaxScanning == 2

\* what _send_rcon hands the loop as wired by the bot: nothing
PickReplies == {r \in SchedReplies : r.empty}

\* lanes of a busy server at a tick: some players cooling after a far read, due
\* now or at the next tick, some not yet classified, the rest near a zone
InitPick ==
    /\ InitRcon /\ RCON_ENABLED = TRUE /\ RCON_WEB_ENABLED = FALSE /\ InitWatch /\ InitSide
    /\ now = StartTime
    /\ ZONES = AllZones
    /\ printpos_enabled = TRUE
    /\ last_tp_times = [k \in PollKeys, zk \in ZoneKeys |-> 0]
    /\ last_player_zones = [k \in PollKeys |-> {}]
    /\ sentCmds = {}
    /\ hist = [k \in PollKeys, zk \in ZoneKeys |-> NoStreak]
    /\ disk = SavedDisk(AllZones)
    /\ lastOp = NoOp
    /\ picked = <<>>
    /\ tickAt = 0
    /\ farAt = [k \in PollKeys |-> -1]
    /\ expired_queues = [c \in Clients |-> <<>>]
    /\ \E n \in {Len(PickPlayers) - 1, Len(PickPlayers)}, w \in 0..MaxCooling,
          c \in 0..MaxScanning, until \in {StartTime, StartTime + PRINTPOS_TICK_INTERVAL} :
            LET ps == SubSeq(PickPlayers, 1, n)
                ready == SubSeq(ps, w + c + 1, n)
            IN  /\ cooldown_until = {<<<<SchedServer, ps[i]>>, until>> : i \in 1..w}
                /\ scan_queues = [s \in Clients |->
                        IF s = SchedServer THEN SubSeq(ps, w + 1, w + c) ELSE <<>>]
                /\ poll_queues = [s \in Clients |->
                        IF s = SchedServer THEN ready ELSE <<>>]
                /\ near_set = [s \in Clients |->
                        IF s = SchedServer THEN RangeOf(ready) ELSE {}]

\* ticks over the busy server
NextPick ==
    \/ TickStart
    \/ \E r \in PickReplies : PollOne(r)
    \/ SchedAdvance(PRINTPOS_TICK_INTERVAL)

SpecPick == InitPick /\ [][NextPick]_vars

\* C34: a tick picks at most PRINTPOS_BATCH_SIZE players of a server, however
\* long its lanes are, and the player at the head of the EXPIRED lane once the
\* due cooldowns were woken is the first of the batch.
C34_BatchBounded ==
    [][TickStart =>
            /\ Len(picked') <= PRINTPOS_BATCH_SIZE
            /\ (printpos_enabled /\ expired_queues[SchedServer] # <<>>)
                    => picked' # <<>> /\ picked'[1] = Head(expired_queues[SchedServer])
            /\ (printpos_enabled /\ expired_queues[SchedServer] = <<>>
                    /\ woken(SchedServer, now) # {})
                    => picked' # <<>> /\ picked'[1] \in woken(SchedServer, now)]_vars

\* a full batch led by a woken player while players still wait in every lane
C34_Witness ==
    /\ Len(picked) = PRINTPOS_BATCH_SIZE
    /\ tickAt = now
    /\ expired_queues[SchedServer] # <<>>
    /\ poll_queues[SchedServer] # <<>>
    /\ scan_queues[SchedServer] # <<>>

\* ------------------------------------------------------ a query that raises

\* _position_poll_loop: the body of `for pname in picked` when _send_rcon
\* raises: `except Exception: _stats[server_key]["err"] += 1`
PollOneRaises ==
    /\ picked # <<>>
    /\ picked' = Tail(picked)
    /\ farAt' = [farAt EXCEPT ![<<SchedServer, Head(picked)>>] = -1]
    /\ bumped' = {"err"}
    /\ UNCHANGED <<now, ZONES, printpos_enabled, last_tp_times, last_player_zones,
                   cooldown_until, near_set, sentCmds, hist, poll_queues,
                   expired_queues, scan_queues, tickAt, rconVars, watchVars, dispatchVars, healthVars,
                   empty_server_until, zoneFileVars, pauseVars, setupVars>>

\* the scheduler over a send function that can raise
NextRaise ==
    \/ TickStart
    \/ \E r \in SchedReplies : PollOne(r)
    \/ PollOneRaises
    \/ \E d \in SchedSteps : SchedAdvance(d)

SpecRaise == InitSched /\ [][NextRaise]_vars

\* in how many of the lanes q1, q2, q3 player pname waits
LaneCount(pname, q1, q2, q3) ==
    Cardinality({i \in 1..3 : pname \in RangeOf(<<q1, q2, q3>>[i])})

NoDuplicates(q) == Cardinality(RangeOf(q)) = Len(q)

C33_UnparsedReplyCounted ==
    [][\A r \in SchedReplies :
            (~r.empty /\ ~r.coords /\ PollOne(r)) =>
                /\ bumped' = {"no_coords"}
                /\ sentCmds' = sentCmds
                /\ last_tp_times' = last_tp_times
                /\ cooldown_until' = cooldown_until
                /\ last_player_zones' = last_player_zones
                /\ LaneCount(Head(picked), poll_queues'[SchedServer],
                             expired_queues'[SchedServer], scan_queues'[SchedServer]) >= 1]_vars

\* ------------------------------------------------ who writes the enabled flag

\* _run_rcon_high_priority up to `await coro`: was_on is read, the flag cleared
HighPriorityStart(t) ==
    /\ hpPc[t] = "idle"
    /\ hpPc' = [hpPc EXCEPT ![t] = "running"]
    /\ hpWasOn' = [hpWasOn EXCEPT ![t] = printpos_enabled]
    /\ printpos_enabled' = IF printpos_enabled THEN FALSE ELSE printpos_enabled
    /\ UNCHANGED <<now, ZONES, last_tp_times, last_player_zones, cooldown_until,
                   near_set, sentCmds, hist, schedVars, healthVars,
                   empty_server_until, zoneFileVars, bumped, operator_off, setupVars,
                   rconVars, watchVars, dispatchVars>>

\* _run_rcon_high_priority: coro has returned or raised, `finally` runs
HighPriorityEnd(t) ==
    /\ hpPc[t] = "running"
    /\ hpPc' = [hpPc EXCEPT ![t] = "idle"]
    /\ hpWasOn' = [hpWasOn EXCEPT ![t] = FALSE]
    /\ printpos_enabled' = IF hpWasOn[t] THEN TRUE ELSE printpos_enabled
    /\ UNCHANGED <<now, ZONES, last_tp_times, last_player_zones, cooldown_until,
                   near_set, sentCmds, hist, schedVars, healthVars,
                   empty_server_until, zoneFileVars, bumped, operator_off, setupVars,
                   rconVars, watchVars, dispatchVars>>

\* /tp-printpos-toggle enabled:<flag> by a permitted operator
TpPrintposToggle(flag) ==
    /\ printpos_enabled' = flag
    /\ operator_off' = ~flag
    /\ UNCHANGED <<now, ZONES, last_tp_times, last_player_zones, cooldown_until,
                   near_set, sentCmds, hist, schedVars, healthVars,
                   empty_server_until, zoneFileVars, bumped, hpPc, hpWasOn, setupVars,
                   rconVars, watchVars, dispatchVars>>

\* the scheduler while moderation commands pause it
NextPriority ==
    \/ TickStart
    \/ \E r \in PickReplies : PollOne(r)
    \/ SchedAdvance(PRINTPOS_TICK_INTERVAL)
    \/ \E t \in HpCalls : HighPriorityStart(t)
    \/ \E t \in HpCalls : HighPriorityEnd(t)

SpecPriority == InitSched /\ [][NextPriority]_vars

\* C37: while a wrapped command is in flight the scheduler is disabled, and
\* with none in flight the flag is what it was before the first one (enabled).
C37_PausedWhileInFlight ==
    /\ (\E t \in HpCalls : hpPc[t] = "running") => ~printpos_enabled
    /\ (\A t \in HpCalls : hpPc[t] = "idle") => printpos_enabled

\* one watcher, moderation commands and the operator's toggle on the one flag
NextSwitch ==
    \/ \E s \in DispatchServers : WatchConnect(s)
    \/ \E s \in DispatchServers : WatchError(s, TRUE)
    \/ \E s \in DispatchServers : WatchClosed(s)
    \/ \E s \in DispatchServers : WatchWake(s)
    \/ WatchAdvance(WATCH_BACKOFF)
    \/ \E flag \in BOOLEAN : TpPrintposToggle(flag)
    \/ \E t \in HpCalls : HighPriorityStart(t)
    \/ \E t \in HpCalls : HighPriorityEnd(t)

SpecSwitch == Init /\ [][NextSwitch]_vars

\* C38: after an operator's disable the scheduler stays disabled until an
\* operator enables it.
C38_OperatorOffStays == operator_off => ~printpos_enabled

\* ------------------------------------------------- _send_zone_setup_cmds

\* the zone /tp-set-zone sets up, and the lists it hands to
\* _send_zone_setup_cmds: deletes, the create of the main zone, a create
\* followed by edits
SetupZoneName == "LAUNCHSITE MAIN"
SetupLists == {<<"other", "other">>, <<"create">>, <<"other", "create", "other">>}

\* what a server answers to zones.listcustomzones: the zone is there or not
VerifyFrames == {[kind |-> "json", id |-> 1, msg |-> SetupZoneName],
                 [kind |-> "json", id |-> 1, msg |-> "no zones"]}

\* how asyncio.wait_for(run_rcon_command(...), timeout=8.0) ends in gather
SetupOutcomes == {"returned", "timeout"}

\* `msg` of the verification: "" for None, the Message of a dict
verify_msg(resp) == IF resp.kind = "none" THEN "" ELSE resp.msg

\* a verification that accepts any text
zone_in_msg_always(zone_name, msg) == TRUE

\* `zone_name not in msg`, negated
zone_in_msg(zone_name, msg) == msg = zone_name

\* the rest of the model stands still while zone commands are sent
SetupFrame ==
    UNCHANGED <<tpOwnVars, healthVars, empty_server_until, zoneFileVars, bumped,
                pauseVars, rconVars, watchVars, dispatchVars>>

\* _send_zone_setup_cmds(cmds, zone_name) is called: the first _broadcast starts
SetupCall(cmds) ==
    /\ setupPhase \in {"idle", "failed", "done"}
    /\ setupCmds' = cmds
    /\ setupIdx' = 1
    /\ setupPhase' = "send"
    /\ setupPending' = Clients
    /\ setupLog' = <<>>
    /\ setupMsg' = [c \in Clients |-> ""]
    /\ SetupFrame

\* _broadcast: the task gather runs for server s sends `cmd`
SetupSend(s, outcome) ==
    /\ setupPhase = "send"
    /\ s \in setupPending
    /\ setupPending' = setupPending \ {s}
    /\ setupLog' = Append(setupLog, <<setupIdx, "send", s, outcome>>)
    /\ UNCHANGED <<setupCmds, setupIdx, setupPhase, setupMsg>>
    /\ SetupFrame

\* _broadcast has returned after its sleep: verification after a create, else
\* the next command of the list
SetupGathered ==
    /\ setupPhase = "send"
    /\ setupPending = {}
    /\ IF setupCmds[setupIdx] = "create"
       THEN /\ setupPhase' = "verify"
            /\ setupPending' = Clients
            /\ UNCHANGED setupIdx
       ELSE IF setupIdx < Len(setupCmds)
       THEN /\ setupIdx' = setupIdx + 1
            /\ setupPending' = Clients
            /\ UNCHANGED setupPhase
       ELSE /\ setupPhase' = "done"
            /\ UNCHANGED <<setupIdx, setupPending>>
    /\ UNCHANGED <<setupCmds, setupLog, setupMsg>>
    /\ SetupFrame

\* the verification task of server s sends zones.listcustomzones; the server
\* answers f, or the wait times out
SetupVerifySend(s, outcome, f) ==
    /\ setupPhase = "verify"
    /\ s \in setupPending
    /\ setupPending' = setupPending \ {s}
    /\ setupLog' = Append(setupLog, <<setupIdx, "verify", s, outcome>>)
    /\ setupMsg' = [setupMsg EXCEPT ![s] =
            IF outcome = "timeout" THEN "exception"
            ELSE verify_msg(run_rcon_command(TRUE, f))]
    /\ UNCHANGED <<setupCmds, setupIdx, setupPhase>>
    /\ SetupFrame

\* `for sk, resp in zip(...)`: RuntimeError for an exception or for a reply
\* that does not name the zone; else sleep and go on
SetupVerified ==
    /\ setupPhase = "verify"
    /\ setupPending = {}
    /\ IF \E s \in Clients : \/ setupMsg[s] = "exception"
                             \/ ~zone_in_msg(SetupZoneName, setupMsg[s])
       THEN /\ setupPhase' = "failed"
            /\ UNCHANGED <<setupIdx, setupPending>>
       ELSE IF setupIdx < Len(setupCmds)
       THEN /\ setupPhase' = "send"
            /\ setupIdx' = setupIdx + 1
            /\ setupPending' = Clients
       ELSE /\ setupPhase' = "done"
            /\ UNCHANGED <<setupIdx, setupPending>>
    /\ UNCHANGED <<setupCmds, setupLog, setupMsg>>
    /\ SetupFrame

NextSetup ==
    \/ \E cmds \in SetupLists : SetupCall(cmds)
    \/ \E s \in Clients, o \in SetupOutcomes : SetupSend(s, o)
    \/ SetupGathered
    \/ \E s \in Clients, o \in SetupOutcomes, f \in VerifyFrames : SetupVerifySend(s, o, f)
    \/ SetupVerified

SpecSetup == InitZones /\ [][NextSetup]_vars

\* C36: a command is sent to every server before the next command is sent to
\* any; nothing follows a create unless the verification found the zone on
\* every server; a verification that failed has stopped the call.
C36_SetupInOrder ==
    /\ \A i, j \in DOMAIN setupLog :
            i < j =>
                /\ setupLog[i][1] <= setupLog[j][1]
                /\ setupLog[i][1] < setupLog[j][1] =>
                        \A s \in Clients : \E n \in 1..(j - 1) :
                            setupLog[n] \in {<<setupLog[i][1], "send", s, o>> : o \in SetupOutcomes}
    /\ \A j \in DOMAIN setupLog, n \in DOMAIN setupCmds :
            (setupCmds[n] = "create" /\ setupLog[j][1] > n)
                => \A s \in Clients : setupMsg[s] = SetupZoneName
    /\ \A n \in DOMAIN setupCmds :
            (setupCmds[n] = "create" /\ (setupIdx > n \/ setupPhase = "done"))
                => \A s \in Clients : setupMsg[s] = SetupZoneName
    /\ setupPhase = "failed" =>
            /\ setupCmds[setupIdx] = "create"
            /\ \A j \in DOMAIN setupLog : setupLog[j][1] <= setupIdx

\* deletes and the create went to both servers in turn, the verification
\* failed, and the edit that follows the create was sent to nobody
C36_Witness ==
    /\ setupPhase = "failed"
    /\ setupCmds = <<"other", "create", "other">>
    /\ Len(setupLog) = 3 * Cardinality(Clients)

\* ------------------------------------------------ players who leave and return

\* player lists the refresh loop reads while positions are read: nobody, p2
\* alone (p1 has left), both
RejoinNames == {<<>>, <<"p2">>, <<"p1", "p2">>}

\* replies with coordinates: inside zone A, far from every zone
RejoinReplies == [empty : {FALSE}, coords : {TRUE},
                  pos : {<<0, 0, 0>>, <<500, 0, 0>>}]

InitRejoin ==
    /\ InitRcon /\ RCON_ENABLED = TRUE /\ RCON_WEB_ENABLED = FALSE /\ InitWatch /\ InitSide
    /\ InitTp(AllZones) /\ InitLanes(<<"p1", "p2">>)

\* position polling while players come and go; p1's reads are followed, the
\* reads of p2 come back empty
NextRejoin ==
    \/ TickStart
    \/ \E r \in RejoinReplies \cup PickReplies :
            /\ picked # <<>>
            /\ Head(picked) = "p1" \/ r.empty
            /\ PollOne(r)
    \/ \E names \in RejoinNames : UpdateConnectedPlayers(SchedServer, names)
    \/ \E d \in {PRINTPOS_TICK_INTERVAL, EMPTY_SERVER_COOLDOWN_SECONDS} : PoolAdvance(d)

SpecRejoin == InitRejoin /\ [][NextRejoin]_vars

TypeOK ==
    /\ ws \in [Clients -> {"none", "open", "closed"}]
    /\ lock \in [Clients -> Tasks \cup {NoTask}]
    /\ pc \in [Tasks -> {"idle", "acquire", "connect", "write", "wait"}]

====
